---- MODULE Spec2Model ----
(***************************************************************************)
(* Model of the over-the-air firmware update engine:                       *)
(*   src/src/boot.py                        check_update_on_boot           *)
(*   src/src/lib/coresys/manager_firmware.py  FirmwareUpdater               *)
(*                                                                         *)
(* The flash filesystem is the persistent state; a power loss or a         *)
(* machine.reset() keeps it and throws every in-memory value away.  Every  *)
(* filesystem operation of a loop (one copy, one rename, one extracted tar *)
(* entry) is one step, so that power can be lost between any two of them.  *)
(*                                                                         *)
(* File contents, version strings included, are sequences of naturals; the *)
(* empty sequence stands for "no such file".  A version string is the      *)
(* sequence of its characters: a digit is its value, Dot is ".", so that   *)
(* "1.10.0" is <<1, Dot, 1, 0, Dot, 0>>.  The root tree of the device      *)
(* model is flat: its entries are the files of Names.                      *)
(*                                                                         *)
(* The functions of the updater that do not touch the flash (version       *)
(* comparison, metadata parsing, the download loop) and the recursive      *)
(* merge over nested trees are checked on their own, each under its own    *)
(* specification with its own variables, with the device at rest.          *)
(*                                                                         *)
(* Faults that are injected: a failed copy during backup and restore, a    *)
(* failed rename during the merge, a failed write of the counter, of the   *)
(* applying flag and of the version file, a failed network bring-up, a     *)
(* failed metadata fetch or parse, a failed download.                      *)
(***************************************************************************)
EXTENDS Integers, Sequences, FiniteSets, TLC

\* ------------------------------------------------------------------ bounds
MaxBoots == 5

MaxCrashes == 1

MaxFaults == 1

\* version components are drawn from 0..MaxVersionPart (and 9, 10)
MaxVersionPart == 2

\* the longest chain of redirects a server answers with before its final
\* response
MaxChain == 3

\* the largest Content-Length of a response
MaxBodyLen == 3

\* the longest name of a tar entry
MaxNameLen == 4

\* the number of half-bytes of a digest
DigestLen == 2

\* the number of FirmwareUpdater objects that are created
MaxObjects == 2

\* items (chunks, entries, directory items) one loop of the engine goes
\* through
MaxUnits == 2

\* ------------------------------------------------------- the filesystem
NoFile == <<>>

PayloadNames == {"main.py", "lib.py"}

Names == {"integrity.json", "main.py", "lib.py", "version.txt"}

\* the order in which uos.listdir enumerates a directory
ListOrder == <<"integrity.json", "main.py", "lib.py", "version.txt">>

OldContent == <<1>>

NewContent == <<2>>

ManifestContent == <<9>>

\* the update flag file: absent, present but empty, or a decimal counter
FlagAbsent == -1

FlagEmpty == 0

VARIABLES
    \* ---- persistent: the flash filesystem and the configuration store
    root,               \* [Names -> content], the live root tree
    backup_exists,      \* /backup is a directory
    backup,             \* [Names -> content], the entries of /backup
    staging_exists,     \* /update is a directory
    staging,            \* [Names -> content], the entries of /update
    archive,            \* /update.tar.zlib: NoArchive or an archive
    tmptar,             \* /update.tmp.tar exists
    applying_flag,      \* /__applying exists
    update_flag,        \* /__updating: FlagAbsent, FlagEmpty or the counter
    cfg_update_on_boot, \* SYS.FIRMWARE.UPDATE_ON_BOOT of the config store
    max_failure_attempts, \* configured FIRMWARE.MAX_FAILURE_ATTEMPTS
    core_system_files,  \* configured FIRMWARE.CORE_SYSTEM_FILES
    \* ---- volatile: lost at every reboot
    pc,                 \* position in check_update_on_boot and its callees
    failure_counter,    \* boot.py local
    error,              \* FirmwareUpdater.error
    current_version,    \* FirmwareUpdater.current_version
    pending_update_version,
    hash_sums,          \* FirmwareUpdater.hash_sums
    latest,             \* version_str returned by check_update
    is_available,       \* boot.py local _is_available
    idx,                \* index of the running loop in ListOrder
    processed_count,    \* _extract_firmware local
    ret,                \* caller of restore_from_backup: "boot" or "apply"
    \* ---- history, for the statements only
    boots,              \* number of boots so far
    crashes,            \* number of power losses in the middle of a run
    faults,             \* number of storage operations that failed
    interrupted,        \* this boot found /__applying at startup
    outcome,            \* how this boot's update attempt ended
    preRoot,            \* root when the last apply_update was entered; a
                        \* reboot keeps it only while /__applying exists
    merge_changed,      \* the merge of this run has renamed something
    merge_failed,       \* the merge of this run has failed
    stages_passed,      \* the stages this run's apply_update has passed
    \* ---- history of the previous run, kept until the boot has looked at
    \* /__applying
    diedExpect,         \* the counter the previous run had written when it
                        \* died in its attempt, else 0
    diedMidMerge,       \* the previous run died after the first change of
                        \* its merge and before its commit had finished
    diedFlagged,        \* ... and before a step that removes /__applying
    diedPostBackup,     \* some run died between backup and commit
    \* ---- history of the boot, for the statements only
    \* (both are dropped when the run enters apply_update)
    bootBackup,         \* /backup as this boot found it
    prevUpToDate,       \* the previous run ended confirmed up to date
    \* ---- the version comparison on its own
    cmp_current,        \* current_version and the triple it was written from
    cmp_latest,         \* latest_version_str and the triple it was written from
    cmp_returned,       \* what _compare_versions returned, or "raised"
    cmp_error,          \* FirmwareUpdater.error after the call
    \* ---- the handling of a release metadata document on its own
    md_document,        \* the metadata document the server sent
    md_current,         \* FirmwareUpdater.current_version
    md_parsed,          \* what _parse_release_metadata returned
    md_available,       \* is_newer_available as check_update returns it
    md_asset,           \* what _get_firmware_url returned
    md_error,           \* FirmwareUpdater.error
    \* ---- the recursive merge over nested trees on its own
    mg_root,            \* the tree under /
    mg_staging,         \* the tree under /update
    mg_staging_exists,  \* /update is a directory
    mg_stack,           \* the running calls of _merge_directories_recursive
    mg_result,          \* "ready", "running", then "ok" or "failed"
    mg_pre,             \* history: both trees before the merge
    \* ---- _download_file on its own
    dl_pc,              \* position in _download_file and _download_content
    dl_server,          \* what the server answers and sends
    dl_chain,           \* redirects the server has still to answer with
    dl_stream,          \* body bytes that have not been read yet
    dl_requests,        \* requests made by this call
    dl_returned,        \* what _download_file returned
    dl_error,           \* FirmwareUpdater.error
    chunk_size,         \* FirmwareUpdater.chunk_size
    store_in_memory,    \* argument of _download_file
    redirects,          \* _download_file local
    remaining,          \* _download_content local
    total_size,         \* FirmwareUpdater.total_size
    bytes_read,         \* FirmwareUpdater.bytes_read
    download_started,   \* FirmwareUpdater.download_started
    download_done,      \* FirmwareUpdater.download_done
    hash_obj,           \* the bytes hash_obj has been updated with
    mem_buffer,         \* the sink: mem_buffer or the target file
    \* ---- objects whose operations are checked on their own
    updater,            \* a FirmwareUpdater and the call made on it
    extraction,         \* _extract_firmware over a tar file, and the flash
    verification,       \* the digest of an extracted file against the manifest
    singleton,          \* the class FirmwareUpdater: _instance and its object
    task_manager,       \* a TaskManager and the coroutines of its tasks
    shared,             \* the updater as the coroutines that call it share it
    event_loop,         \* the coroutines of the engine and of a periodic task
    progress            \* updaters that differ in their progress callback

persistent == <<root, backup_exists, backup, staging_exists, staging, archive,
                tmptar, applying_flag, update_flag, cfg_update_on_boot>>

config == <<max_failure_attempts, core_system_files>>

volatile == <<pc, failure_counter, error, current_version,
              pending_update_version, hash_sums, latest, is_available, idx,
              processed_count, ret>>

budget == <<boots, crashes, faults>>

history == <<budget, interrupted, outcome, preRoot, merge_changed,
             merge_failed, stages_passed, diedExpect, diedMidMerge,
             diedFlagged, diedPostBackup>>

bootHist == <<bootBackup, prevUpToDate>>

device == <<persistent, config, volatile, history, bootHist>>

compareUnit == <<cmp_current, cmp_latest, cmp_returned, cmp_error>>

\* the state of the functions that are checked on their own
metadataUnit == <<md_document, md_current, md_parsed, md_available, md_asset,
                  md_error>>

mergeUnit == <<mg_root, mg_staging, mg_staging_exists, mg_stack, mg_result,
               mg_pre>>

dlInputs == <<dl_server, chunk_size, store_in_memory>>

dlTransfer == <<remaining, total_size, bytes_read, hash_obj, mem_buffer,
                dl_stream>>

downloadUnit == <<dl_pc, dlInputs, dl_chain, dl_requests, dl_returned,
                  dl_error, redirects, download_started, download_done,
                  dlTransfer>>

\* what an action of one of these functions leaves alone
objects == <<updater, extraction, verification, singleton, task_manager,
            shared, event_loop, progress>>

exceptCompare == <<device, metadataUnit, mergeUnit, downloadUnit, objects>>

exceptMetadata == <<device, compareUnit, mergeUnit, downloadUnit, objects>>

exceptMerge == <<device, compareUnit, metadataUnit, downloadUnit, objects>>

exceptDownload == <<device, compareUnit, metadataUnit, mergeUnit, objects>>

functionUnits == <<compareUnit, metadataUnit, mergeUnit, downloadUnit>>

unitState == <<functionUnits, objects>>

vars == <<device, unitState>>

\* ------------------------------------------------------------- versions
NoVersion == <<>>

\* the characters of a version string or of a tag next to the digits 0..9:
\* ".", a letter that is no digit (as in "a.b.c"), and the "v" of "v1.2.0"
Dot == 10

Letter == 11

LowerV == 12

\* str(n): the decimal digits of a natural
RECURSIVE Digits(_)
Digits(n) == IF n < 10 THEN <<n>> ELSE Append(Digits(n \div 10), n % 10)

\* the version string "major.minor.patch"
VersionString(major, minor, patch) ==
    Digits(major) \o <<Dot>> \o Digits(minor) \o <<Dot>> \o Digits(patch)

\* the index of the first "." of a string that has one
FirstDot(str) ==
    CHOOSE i \in 1..Len(str) :
        str[i] = Dot /\ \A j \in 1..(i - 1) : str[j] # Dot

\* str.split("."): the pieces between the dots, empty pieces included
RECURSIVE Split(_)
Split(str) ==
    IF \A i \in 1..Len(str) : str[i] # Dot
    THEN <<str>>
    ELSE LET dot == FirstDot(str) IN
         <<SubSeq(str, 1, dot - 1)>>
            \o Split(SubSeq(str, dot + 1, Len(str)))

\* int(piece) does not raise ValueError: the piece is a non-empty run of
\* digits
IsInt(piece) == Len(piece) > 0 /\ \A i \in 1..Len(piece) : piece[i] \in 0..9

\* int(piece): the value of a run of decimal digits
RECURSIVE ToInt(_)
ToInt(piece) ==
    IF Len(piece) = 0 THEN 0
    ELSE 10 * ToInt(SubSeq(piece, 1, Len(piece) - 1)) + piece[Len(piece)]

\* FirmwareUpdater._parse_semver: major, minor, patch =
\* map(int, version.split(".")); anything but three integers raises
_parse_semver(version) ==
    LET parts == Split(version) IN
    IF Len(parts) = 3 /\ \A i \in 1..3 : IsInt(parts[i])
    THEN [raised |-> FALSE,
          semver |-> <<ToInt(parts[1]), ToInt(parts[2]), ToInt(parts[3])>>]
    ELSE [raised |-> TRUE, semver |-> <<>>]

\* the releases the server may publish: "1.0.0", "1.1.0" and the malformed
\* "1.1"
Releases ==
    { VersionString(1, 0, 0), VersionString(1, 1, 0), <<1, Dot, 1>> }

\* FirmwareUpdater._parse_semver returns, it does not raise
_parse_semver_ok(version) == ~_parse_semver(version).raised

\* latest_semver <= current_semver with "<" for "<=" in the last place
SemverLeq_Strict(a, b) ==
    \/ a[1] < b[1]
    \/ a[1] = b[1] /\ a[2] < b[2]
    \/ a[1] = b[1] /\ a[2] = b[2] /\ a[3] < b[3]

\* tuple ordering of two parsed versions: a <= b
SemverLeq(a, b) ==
    \/ a[1] < b[1]
    \/ a[1] = b[1] /\ a[2] < b[2]
    \/ a[1] = b[1] /\ a[2] = b[2] /\ a[3] <= b[3]

\* FirmwareUpdater._compare_versions: "ok" is FALSE when a parse raised; the
\* exception is caught (434-437), error is set and False is returned
_compare_versions(current, latest_version) ==
    LET current_semver == _parse_semver(current)
        latest_semver == _parse_semver(latest_version)
    IN  IF ~current_semver.raised /\ ~latest_semver.raised
        THEN [ok |-> TRUE,
              newer |-> ~SemverLeq(latest_semver.semver,
                                   current_semver.semver)]
        ELSE [ok |-> FALSE, newer |-> FALSE]

\* FirmwareUpdater._read_version: a missing version file reads as "0.0.0"
_read_version(r) ==
    IF r["version.txt"] = NoFile THEN VersionString(0, 0, 0)
    ELSE r["version.txt"]

\* --------------------------------------------------------------- errors
NoError == [kind |-> "none", path |-> "none"]

Err(k) == [kind |-> k, path |-> "none"]

ErrAt(k, p) == [kind |-> k, path |-> p]

\* ------------------------------------------------------------- archives
NoArchive == [present |-> FALSE]

NoDigest == [sha |-> NoFile]

\* hashlib.sha256 of a content, as a hex digest
Sha256(c) == [sha |-> c]

EmptyManifest == [n \in PayloadNames |-> NoDigest]

\* an archive: zok - the zlib stream inflates; manifest - integrity.json is
\* the first tar entry; digests - what integrity.json maps each path to;
\* files - the payload entries
Archive(z, m, d, f) ==
    [present |-> TRUE, zok |-> z, manifest |-> m, digests |-> d, files |-> f]

AllNew == [n \in PayloadNames |-> NewContent]

OnlyLib == [n \in PayloadNames |-> IF n = "lib.py" THEN NewContent ELSE NoFile]

\* the manifest the build writes: the SHA-256 of every payload file
TrueDigests(f) ==
    [n \in PayloadNames |-> IF f[n] = NoFile THEN NoDigest ELSE Sha256(f[n])]

\* a manifest whose digest for file b is not the digest of the bytes of b
WrongDigestFor(f, b) ==
    [n \in PayloadNames |->
        IF n = b THEN Sha256(<<3>>) ELSE TrueDigests(f)[n]]

\* the archives a download may deliver: a well-built one, one whose zlib
\* stream is corrupt, two with one payload file that does not match its
\* digest, one without main.py, one without main.py and without manifest
Archives ==
    { Archive(TRUE, TRUE, TrueDigests(AllNew), AllNew),
      Archive(FALSE, TRUE, TrueDigests(AllNew), AllNew),
      Archive(TRUE, TRUE, WrongDigestFor(AllNew, "main.py"), AllNew),
      Archive(TRUE, TRUE, WrongDigestFor(AllNew, "lib.py"), AllNew),
      Archive(TRUE, TRUE, TrueDigests(OnlyLib), OnlyLib),
      Archive(TRUE, FALSE, EmptyManifest, OnlyLib) }

\* ---------------------------------------------------------------- Init
\* FIRMWARE.CORE_SYSTEM_FILES as the device may be configured
CoreSystemFilesChoices == {{}, {"main.py"}}

\* FIRMWARE.MAX_FAILURE_ATTEMPTS as this device is configured: a value other
\* than the default of FirmwareUpdater.__init__ (max_failure_attempts=3)
ConfiguredMaxFailureAttempts == 2

DeviceInit ==
    /\ root = [n \in Names |->
                 IF n = "main.py" THEN OldContent
                 ELSE IF n = "version.txt" THEN VersionString(1, 0, 0)
                 ELSE NoFile]
    /\ backup_exists = FALSE
    /\ backup = [n \in Names |-> NoFile]
    /\ staging_exists = FALSE
    /\ staging = [n \in Names |-> NoFile]
    /\ archive = NoArchive
    /\ tmptar = FALSE
    /\ applying_flag = FALSE
    /\ update_flag = FlagAbsent
    /\ cfg_update_on_boot = TRUE
    /\ max_failure_attempts = ConfiguredMaxFailureAttempts
    /\ core_system_files \in CoreSystemFilesChoices
    /\ pc = "bt_start"
    /\ failure_counter = 0
    /\ error = NoError
    /\ current_version = NoVersion
    /\ pending_update_version = NoVersion
    /\ hash_sums = EmptyManifest
    /\ latest = NoVersion
    /\ is_available = FALSE
    /\ idx = 0
    /\ processed_count = 0
    /\ ret = "none"
    /\ boots = 1
    /\ crashes = 0
    /\ faults = 0
    /\ interrupted = FALSE
    /\ outcome = "none"
    /\ preRoot = root
    /\ merge_changed = FALSE
    /\ merge_failed = FALSE
    /\ stages_passed = {}
    /\ diedExpect = 0
    /\ diedMidMerge = FALSE
    /\ diedFlagged = FALSE
    /\ diedPostBackup = FALSE
    /\ bootBackup = [exists |-> backup_exists, entries |-> backup]
    /\ prevUpToDate = FALSE

\* a function that is checked on its own has not been given its input
NoSpecimen == [text |-> NoVersion, triple |-> <<>>, well_formed |-> FALSE]

CompareAtRest ==
    /\ cmp_current = NoSpecimen
    /\ cmp_latest = NoSpecimen
    /\ cmp_returned = "none"
    /\ cmp_error = NoError

\* no metadata document, _parse_release_metadata not called
NoDocument ==
    [kind |-> "none", empty |-> TRUE, has_tag |-> FALSE, tag_name |-> <<>>,
     assets |-> <<>>]

NotParsed == [state |-> "none", version |-> NoVersion]

MetadataAtRest ==
    /\ md_document = NoDocument
    /\ md_current = NoVersion
    /\ md_parsed = NotParsed
    /\ md_available = "none"
    /\ md_asset = "none"
    /\ md_error = NoError

\* ---- nested trees: a node is nothing, a file or a directory
TopNames == {"app", "lib"}

ChildNames == {"x.py", "y.py"}

\* the order in which uos.listdir enumerates the names
TopOrder == <<"app", "lib">>

ChildOrder == <<"x.py", "y.py">>

\* the paths of a tree, relative to its top
Paths ==
    { <<t>> : t \in TopNames } \cup (TopNames \X ChildNames)

NoNode == [type |-> "none", content |-> NoFile]

DirNode == [type |-> "dir", content |-> NoFile]

FileNode(c) == [type |-> "file", content |-> c]

EmptyTree == [q \in Paths |-> NoNode]

MergeAtRest ==
    /\ mg_root = EmptyTree
    /\ mg_staging = EmptyTree
    /\ mg_staging_exists = FALSE
    /\ mg_stack = <<>>
    /\ mg_result = "none"
    /\ mg_pre = [root |-> EmptyTree, staging |-> EmptyTree]

\* ---- the download
NoServer ==
    [chain |-> 0, endless |-> FALSE, status |-> 0, content_length |-> 0,
     body |-> <<>>]

\* _download_file has not returned / returned (None, None) / returned
\* (content_str, computed_hash)
NotReturned == [state |-> "none", hash |-> NoDigest]

ReturnedNone == [state |-> "failed", hash |-> NoDigest]

ReturnedResult(h) == [state |-> "result", hash |-> h]

DownloadAtRest ==
    /\ dl_pc = "none"
    /\ dl_server = NoServer
    /\ dl_chain = 0
    /\ dl_stream = <<>>
    /\ dl_requests = 0
    /\ dl_returned = NotReturned
    /\ dl_error = NoError
    /\ chunk_size = 0
    /\ store_in_memory = FALSE
    /\ redirects = 0
    /\ remaining = 0
    /\ total_size = 0
    /\ bytes_read = 0
    /\ download_started = FALSE
    /\ download_done = FALSE
    /\ hash_obj = <<>>
    /\ mem_buffer = <<>>

FunctionsAtRest ==
    /\ CompareAtRest
    /\ MetadataAtRest
    /\ MergeAtRest
    /\ DownloadAtRest

\* ---- the objects: no object has been made, no operation called
NoUpdater == [pc |-> "none"]

UpdaterAtRest == updater = NoUpdater

NoExtraction == [pc |-> "none"]

ExtractionAtRest == extraction = NoExtraction

NoVerification == [pc |-> "none"]

VerificationAtRest == verification = NoVerification

NoSingleton == [pc |-> "none"]

SingletonAtRest == singleton = NoSingleton

NoTaskManager == [pc |-> "none"]

TaskManagerAtRest == task_manager = NoTaskManager

NoShared == [pc |-> "none"]

NoEventLoop == [pc |-> "none"]

EventLoopAtRest == event_loop = NoEventLoop

NoProgress == [pc |-> "none"]

ProgressAtRest == progress = NoProgress

SharedAtRest == shared = NoShared

ObjectsAtRest ==
    /\ UpdaterAtRest
    /\ ExtractionAtRest
    /\ VerificationAtRest
    /\ SingletonAtRest
    /\ TaskManagerAtRest
    /\ SharedAtRest
    /\ EventLoopAtRest
    /\ ProgressAtRest

UnitsAtRest ==
    /\ FunctionsAtRest
    /\ ObjectsAtRest

Init == DeviceInit /\ UnitsAtRest

\* the outcomes of a storage operation: it fails only while the fault
\* budget lasts
StorageOutcomes == IF faults < MaxFaults THEN BOOLEAN ELSE {TRUE}

histNoBudget == <<interrupted, outcome, preRoot, merge_changed, merge_failed,
                  stages_passed, diedExpect, diedMidMerge, diedFlagged,
                  diedPostBackup>>

\* ------------------------------------------------------- reboot, power
\* positions between the first rename of the merge and the step that
\* removes /__applying: the rest of the merge, the version file, the cleanup
\* (apply_update, manager_firmware.py 899-922), and the rollback that
\* apply_update starts after a failed merge (907) until it returns
FlaggedPcs ==
    {"ap_merge", "ap_merge_done", "ap_version", "ap_cleanup",
     "ap_rm_applying"}

RollbackPcs == {"rs_start", "rs_remove", "rs_copy", "rs_finish"}

\* positions of check_update_on_boot after the counter has been written
\* (boot.py 162-212) and of apply_update before it removes the update flag
AttemptPcs ==
    {"bt_network", "bt_fw_init", "check_update", "download_update",
     "ap_start", "ap_decompress", "ap_extract", "ap_entry", "ap_backup",
     "ap_backup_item", "ap_mark", "ap_merge", "ap_merge_done", "ap_version",
     "ap_cleanup", "ap_rm_applying", "ap_rm_update", "ap_fail_cleanup",
     "ap_fail_cleanup_tar", "rs_start", "rs_remove", "rs_copy", "rs_finish"}

\* the run is in an update attempt whose counter has been written and whose
\* update flag has not been removed yet
InAttempt ==
    \/ pc \in AttemptPcs \ RollbackPcs
    \/ pc \in RollbackPcs /\ ret = "apply"

\* boot.py 153 without the increment
NextFailureCount_NoIncrement(counter) == counter

\* boot.py 153: the value written for this attempt
NextFailureCount(counter) == counter + 1

\* what a restart does to the memory: every in-memory value is lost
Restart ==
    /\ pc' = "bt_start"
    /\ failure_counter' = 0
    /\ error' = NoError
    /\ current_version' = NoVersion
    /\ pending_update_version' = NoVersion
    /\ hash_sums' = EmptyManifest
    /\ latest' = NoVersion
    /\ is_available' = FALSE
    /\ idx' = 0
    /\ processed_count' = 0
    /\ ret' = "none"
    /\ boots' = boots + 1
    /\ interrupted' = FALSE
    /\ outcome' = "none"
    /\ merge_changed' = FALSE
    /\ merge_failed' = FALSE
    /\ stages_passed' = {}
    /\ diedExpect' = IF InAttempt
                     THEN NextFailureCount(failure_counter) ELSE 0
    /\ diedMidMerge' = (merge_changed /\ outcome # "committed")
    /\ diedFlagged' = /\ merge_changed
                      /\ \/ pc \in FlaggedPcs
                         \/ pc \in RollbackPcs /\ ret = "apply"
    /\ diedPostBackup' =
          \/ "backup" \in stages_passed /\ outcome # "committed"
          \/ diedPostBackup /\ (pc = "bt_start" \/ interrupted)
    /\ preRoot' = (IF applying_flag THEN preRoot ELSE root)
    /\ bootBackup' = [exists |-> backup_exists, entries |-> backup]
    /\ prevUpToDate' = (pc = "idle" /\ outcome = "up_to_date")
    /\ UNCHANGED <<persistent, config, faults, unitState>>

\* power is lost in the middle of a run, at any step, and the device boots
\* again
PowerLoss ==
    /\ boots < MaxBoots
    /\ crashes < MaxCrashes
    /\ pc \notin {"halted", "idle", "bt_reset_ok", "bt_reset_fail"}
    /\ crashes' = crashes + 1
    /\ Restart

\* the device is switched off and on again after boot.py has returned
PowerCycle ==
    /\ boots < MaxBoots
    /\ pc = "idle"
    /\ UNCHANGED crashes
    /\ Restart

\* machine.reset() of boot.py
machine_reset ==
    /\ pc \in {"bt_reset_ok", "bt_reset_fail"}
    /\ IF boots < MaxBoots
       THEN Restart /\ UNCHANGED crashes
       ELSE /\ pc' = "halted"
            /\ UNCHANGED <<persistent, config, failure_counter, error,
                   current_version, pending_update_version, hash_sums,
                   latest, is_available, idx, processed_count, ret, history,
                   bootHist, unitState>>

\* -------------------------------------------------- check_update_on_boot
\* the literal of boot.py's "if failure_counter >= 3"
BootMaxFailures == 3

\* FirmwareUpdater.was_interrupted_during_applying / uos.stat('/__applying')
was_interrupted_during_applying == applying_flag

\* what system.firmware.init() returns (boot.py 23 and 183)
firmware_init == BOOLEAN

\* boot.py 20-41, a missing "return" after the restore branch
Boot_CheckApplying_NoReturn ==
    /\ pc = "bt_start"
    /\ interrupted' = was_interrupted_during_applying
    /\ pc' = "bt_counter"
    /\ diedExpect' = 0
    /\ diedMidMerge' = FALSE
    /\ diedFlagged' = FALSE
    /\ UNCHANGED <<persistent, config, failure_counter, error,
                   current_version, pending_update_version, hash_sums,
                   latest, is_available, idx, processed_count, ret, budget,
                   outcome, preRoot, merge_changed, merge_failed,
                   stages_passed, diedPostBackup>>
    /\ UNCHANGED <<bootHist, unitState>>

\* boot.py 20-32 and 40-41: the applying flag is looked at first; when it is
\* there, system.firmware.init() is called and, if that succeeds,
\* restore_from_backup
Boot_CheckApplying ==
    /\ pc = "bt_start"
    /\ interrupted' = was_interrupted_during_applying
    /\ IF was_interrupted_during_applying
       THEN \E init_ok \in firmware_init :
              IF init_ok
              THEN /\ pc' = "rs_start"
                   /\ ret' = "boot"
                   /\ current_version' = _read_version(root)
              ELSE /\ pc' = "bt_rm_applying"
                   /\ UNCHANGED <<ret, current_version>>
       ELSE /\ pc' = "bt_counter"
            /\ UNCHANGED <<ret, current_version>>
    /\ diedExpect' = 0
    /\ diedMidMerge' = FALSE
    /\ diedFlagged' = FALSE
    /\ UNCHANGED <<persistent, config, failure_counter, error,
                   pending_update_version, hash_sums, latest, is_available,
                   idx, processed_count, budget, outcome, preRoot,
                   merge_changed, merge_failed, stages_passed,
                   diedPostBackup>>
    /\ UNCHANGED <<bootHist, unitState>>

\* boot.py 33-39: the flag is removed whatever the restore returned
Boot_RemoveApplying ==
    /\ pc = "bt_rm_applying"
    /\ applying_flag' = FALSE
    /\ pc' = "idle"
    /\ UNCHANGED <<root, backup_exists, backup, staging_exists, staging,
                   archive, tmptar, update_flag, cfg_update_on_boot, config,
                   failure_counter, error, current_version,
                   pending_update_version, hash_sums, latest, is_available,
                   idx, processed_count, ret, history>>
    /\ UNCHANGED <<bootHist, unitState>>

\* boot.py 71-118: absent, empty and unparsable all read as 0
ReadCounter(flag) == IF flag \in {FlagAbsent, FlagEmpty} THEN 0 ELSE flag

\* boot.py 120-121: the budget test
BudgetExhausted(counter) == counter >= BootMaxFailures

\* boot.py 71-148: read the counter; at the limit disable UPDATE_ON_BOOT,
\* remove the flag and return
Boot_ReadCounter ==
    /\ pc = "bt_counter"
    /\ failure_counter' = ReadCounter(update_flag)
    /\ IF BudgetExhausted(ReadCounter(update_flag))
       THEN /\ cfg_update_on_boot' = FALSE
            /\ update_flag' = FlagAbsent
            /\ outcome' = "exhausted"
            /\ pc' = "idle"
       ELSE /\ pc' = "bt_write_open"
            /\ UNCHANGED <<cfg_update_on_boot, update_flag, outcome>>
    /\ UNCHANGED <<root, backup_exists, backup, staging_exists, staging,
                   archive, tmptar, applying_flag, config, error,
                   current_version, pending_update_version, hash_sums,
                   latest, is_available, idx, processed_count, ret, budget,
                   interrupted, preRoot, merge_changed, merge_failed,
                   stages_passed, diedMidMerge, diedFlagged, diedExpect,
                   diedPostBackup>>
    /\ UNCHANGED <<bootHist, unitState>>

\* boot.py 154-155 and 158-160: open(update_flag_path, 'w') truncates the
\* file, or raises and the boot returns
Boot_OpenCounter ==
    /\ pc = "bt_write_open"
    /\ \E opened \in StorageOutcomes :
         /\ faults' = (IF opened THEN faults ELSE faults + 1)
         /\ IF opened
            THEN /\ update_flag' = FlagEmpty
                 /\ pc' = "bt_write"
                 /\ UNCHANGED outcome
            ELSE /\ outcome' = "not_started"
                 /\ pc' = "idle"
                 /\ UNCHANGED update_flag
    /\ UNCHANGED <<root, backup_exists, backup, staging_exists, staging,
                   archive, tmptar, applying_flag, cfg_update_on_boot,
                   config, failure_counter, error, current_version,
                   pending_update_version, hash_sums, latest, is_available,
                   idx, processed_count, ret, boots, crashes, interrupted, preRoot,
                   merge_changed, merge_failed, stages_passed, diedMidMerge,
                   diedFlagged, diedExpect, diedPostBackup>>
    /\ UNCHANGED <<bootHist, unitState>>

\* boot.py 156-160: f.write(str(failure_counter + 1)), or the write raises
\* and the boot returns
Boot_WriteCounter ==
    /\ pc = "bt_write"
    /\ \E written \in StorageOutcomes :
         /\ faults' = (IF written THEN faults ELSE faults + 1)
         /\ IF written
            THEN /\ update_flag' = NextFailureCount(failure_counter)
                 /\ pc' = "bt_network"
                 /\ UNCHANGED outcome
            ELSE /\ outcome' = "not_started"
                 /\ pc' = "idle"
                 /\ UNCHANGED update_flag
    /\ UNCHANGED <<root, backup_exists, backup, staging_exists, staging,
                   archive, tmptar, applying_flag, cfg_update_on_boot,
                   config, failure_counter, error, current_version,
                   pending_update_version, hash_sums, latest, is_available,
                   idx, processed_count, ret, boots, crashes, interrupted, preRoot,
                   merge_changed, merge_failed, stages_passed, diedMidMerge,
                   diedFlagged, diedExpect, diedPostBackup>>
    /\ UNCHANGED <<bootHist, unitState>>

\* boot.py 169-181: system.network.up() and wait_until_up(60000)
Boot_Network ==
    /\ pc = "bt_network"
    /\ \E network_connected \in BOOLEAN :
         IF network_connected
         THEN /\ pc' = "bt_fw_init"
              /\ UNCHANGED outcome
         ELSE /\ outcome' = "network_failed"
              /\ pc' = "bt_post"
    /\ UNCHANGED <<persistent, config, failure_counter, error,
                   current_version, pending_update_version, hash_sums,
                   latest, is_available, idx, processed_count, ret, budget,
                   interrupted, preRoot, merge_changed, merge_failed,
                   stages_passed, diedMidMerge, diedFlagged, diedExpect,
                   diedPostBackup>>
    /\ UNCHANGED <<bootHist, unitState>>

\* boot.py 183-185: system.firmware.init(); the updater it creates reads
\* the version file (FirmwareUpdater.__init__, manager_firmware.py 37)
Boot_FirmwareInit ==
    /\ pc = "bt_fw_init"
    /\ \E init_ok \in firmware_init :
         IF init_ok
         THEN /\ current_version' = _read_version(root)
              /\ pc' = "check_update"
              /\ UNCHANGED outcome
         ELSE /\ outcome' = "init_failed"
              /\ pc' = "bt_post"
              /\ UNCHANGED current_version
    /\ UNCHANGED <<persistent, config, failure_counter, error,
                   pending_update_version, hash_sums, latest, is_available,
                   idx, processed_count, ret, budget, interrupted, preRoot,
                   merge_changed, merge_failed, stages_passed, diedMidMerge,
                   diedFlagged, diedExpect, diedPostBackup>>
    /\ UNCHANGED <<bootHist, unitState>>

\* what the metadata request of check_update may produce: no response, a
\* document that does not parse, or a release with its tag (leading v
\* stripped)
MetadataResults ==
    { [kind |-> "fetch_failed", tag |-> NoVersion],
      [kind |-> "parse_failed", tag |-> NoVersion] }
    \cup { [kind |-> "release", tag |-> r] : r \in Releases }

\* FirmwareUpdater._cleanup_success_flags, guarded by _path_exists
\* (manager_firmware.py 366-372 and 518-519)
_cleanup_success_flags(flag) == FlagAbsent

\* FirmwareUpdater.check_update (manager_firmware.py 486-521)
check_update ==
    /\ pc = "check_update"
    /\ \E m \in MetadataResults :
         IF m.kind = "fetch_failed"
         THEN /\ error' = Err("download")
              /\ latest' = NoVersion
              /\ is_available' = FALSE
              /\ UNCHANGED update_flag
         ELSE IF m.kind = "parse_failed"
         THEN /\ error' = Err("metadata")
              /\ latest' = NoVersion
              /\ is_available' = FALSE
              /\ UNCHANGED update_flag
         ELSE LET cmp == _compare_versions(current_version, m.tag) IN
              /\ error' = IF cmp.ok THEN NoError ELSE Err("version")
              /\ latest' = m.tag
              /\ is_available' = cmp.newer
              /\ update_flag' = IF cmp.newer
                                THEN update_flag
                                ELSE _cleanup_success_flags(update_flag)
    /\ pc' = "bt_after_check"
    /\ UNCHANGED <<root, backup_exists, backup, staging_exists, staging,
                   archive, tmptar, applying_flag, cfg_update_on_boot,
                   config, failure_counter, current_version,
                   pending_update_version, hash_sums, idx, processed_count,
                   ret, history>>
    /\ UNCHANGED <<bootHist, unitState>>

\* boot.py 189-212 with the download started whenever a version came back
Boot_AfterCheck_DownloadAnyway ==
    /\ pc = "bt_after_check"
    /\ IF error # NoError \/ (latest = NoVersion /\ ~is_available)
       THEN /\ outcome' = (IF error.kind = "version" THEN "version_error"
                           ELSE "check_failed")
            /\ pc' = "bt_post"
       ELSE /\ pc' = "download_update"
            /\ UNCHANGED outcome
    /\ UNCHANGED <<persistent, config, failure_counter, error,
                   current_version, pending_update_version, hash_sums,
                   latest, is_available, idx, processed_count, ret, budget,
                   interrupted, preRoot, merge_changed, merge_failed,
                   stages_passed, diedMidMerge, diedFlagged, diedExpect,
                   diedPostBackup>>
    /\ UNCHANGED <<bootHist, unitState>>

\* boot.py 189-212: what the boot does with the result of check_update
Boot_AfterCheck ==
    /\ pc = "bt_after_check"
    /\ IF error # NoError \/ (latest = NoVersion /\ ~is_available)
       THEN /\ outcome' = (IF error.kind = "version" THEN "version_error"
                           ELSE "check_failed")
            /\ pc' = "bt_post"
       ELSE IF is_available
       THEN /\ pc' = "download_update"
            /\ UNCHANGED outcome
       ELSE /\ outcome' = "up_to_date"
            /\ pc' = "bt_post"
    /\ UNCHANGED <<persistent, config, failure_counter, error,
                   current_version, pending_update_version, hash_sums,
                   latest, is_available, idx, processed_count, ret, budget,
                   interrupted, preRoot, merge_changed, merge_failed,
                   stages_passed, diedMidMerge, diedFlagged, diedExpect,
                   diedPostBackup>>
    /\ UNCHANGED <<bootHist, unitState>>

\* system.firmware.download_update as boot.py 197-209 uses it: on success
\* the archive is at /update.tar.zlib and the pending version is set
\* (manager_firmware.py 537), on failure the pending version is cleared
download_update ==
    /\ pc = "download_update"
    /\ \E a \in Archives \cup {NoArchive} :
         IF a # NoArchive
         THEN /\ archive' = a
              /\ error' = NoError
              /\ pending_update_version' = latest
              /\ pc' = "ap_start"
              /\ UNCHANGED outcome
         ELSE /\ error' = Err("download")
              /\ pending_update_version' = NoVersion
              /\ outcome' = "download_failed"
              /\ pc' = "bt_post"
              /\ UNCHANGED archive
    /\ UNCHANGED <<root, backup_exists, backup, staging_exists, staging,
                   tmptar, applying_flag, update_flag, cfg_update_on_boot,
                   config, failure_counter, current_version, hash_sums,
                   latest, is_available, idx, processed_count, ret, budget,
                   interrupted, preRoot, merge_changed, merge_failed,
                   stages_passed, diedMidMerge, diedFlagged, diedExpect,
                   diedPostBackup>>
    /\ UNCHANGED <<bootHist, unitState>>

\* boot.py 200-207: apply_update returned
Boot_AfterApply ==
    /\ pc = "ap_return"
    /\ IF outcome = "committed"
       THEN pc' = "bt_post"
       ELSE pc' = "bt_reset_fail"
    /\ UNCHANGED <<persistent, config, failure_counter, error,
                   current_version, pending_update_version, hash_sums,
                   latest, is_available, idx, processed_count, ret, history>>
    /\ UNCHANGED <<bootHist, unitState>>

\* boot.py 218-234: the flag is removed after a successful journey only; an
\* applied update ends in machine.reset()
Boot_Post ==
    /\ pc = "bt_post"
    /\ IF outcome \in {"up_to_date", "committed"}
       THEN /\ update_flag' = FlagAbsent
            /\ pc' = (IF outcome = "committed" THEN "bt_reset_ok" ELSE "idle")
       ELSE /\ pc' = "idle"
            /\ UNCHANGED update_flag
    /\ UNCHANGED <<root, backup_exists, backup, staging_exists, staging,
                   archive, tmptar, applying_flag, cfg_update_on_boot,
                   config, failure_counter, error, current_version,
                   pending_update_version, hash_sums, latest, is_available,
                   idx, processed_count, ret, history>>
    /\ UNCHANGED <<bootHist, unitState>>

\* ------------------------------------------------------------ loop help

died == <<diedExpect, diedMidMerge, diedFlagged, diedPostBackup>>

histNoStages == <<budget, interrupted, outcome, preRoot, merge_changed,
                  merge_failed, died>>

flags == <<applying_flag, update_flag, cfg_update_on_boot>>

bootLocals == <<failure_counter, latest, is_available>>

\* the first index after i whose entry is present in directory d
RECURSIVE NextPresent(_, _)
NextPresent(d, i) ==
    IF i >= Len(ListOrder) THEN Len(ListOrder) + 1
    ELSE IF d[ListOrder[i + 1]] # NoFile THEN i + 1
    ELSE NextPresent(d, i + 1)

\* the tar entries of an archive as a directory: integrity.json first, then
\* the payload files
TarEntries(a) ==
    [n \in Names |->
        IF n = "integrity.json"
        THEN (IF a.manifest THEN ManifestContent ELSE NoFile)
        ELSE IF n \in PayloadNames THEN a.files[n] ELSE NoFile]

EmptyDir == [n \in Names |-> NoFile]

\* ------------------------------------------------------ restore_from_backup
\* where restore_from_backup returns to: boot.py 25 or apply_update 908
RestoreReturn == IF ret = "boot" THEN "bt_rm_applying" ELSE "ap_fail_cleanup"

\* restore_from_backup, manager_firmware.py 1157-1187: a missing or empty
\* backup directory ends the restore with an error and leaves the flag
restore_start ==
    /\ pc = "rs_start"
    /\ IF ~backup_exists
       THEN /\ error' = Err("backup_not_found")
            /\ pc' = RestoreReturn
            /\ UNCHANGED idx
       ELSE IF backup = EmptyDir
       THEN /\ error' = Err("backup_empty")
            /\ pc' = RestoreReturn
            /\ UNCHANGED idx
       ELSE /\ error' = NoError
            /\ idx' = NextPresent(backup, 0)
            /\ pc' = "rs_remove"
    /\ UNCHANGED <<persistent, config, bootLocals, current_version,
                   pending_update_version, hash_sums, processed_count, ret,
                   history>>
    /\ UNCHANGED <<bootHist, unitState>>

\* 1194-1210: the root entry that is to be restored is removed first
restore_remove ==
    /\ pc = "rs_remove"
    /\ root' = [root EXCEPT ![ListOrder[idx]] = NoFile]
    /\ pc' = "rs_copy"
    /\ UNCHANGED <<backup_exists, backup, staging_exists, staging, archive,
                   tmptar, flags, config, bootLocals, error, current_version,
                   pending_update_version, hash_sums, idx, processed_count,
                   ret, history>>
    /\ UNCHANGED <<bootHist, unitState>>

\* 1212-1222 with the backup entry moved to the root, not copied
restore_copy_Move ==
    /\ pc = "rs_copy"
    /\ \E copied \in StorageOutcomes :
         /\ faults' = (IF copied THEN faults ELSE faults + 1)
         /\ IF copied
            THEN /\ root' = [root EXCEPT ![ListOrder[idx]] = backup[ListOrder[idx]]]
                 /\ backup' = [backup EXCEPT ![ListOrder[idx]] = NoFile]
                 /\ idx' = NextPresent(backup, idx)
                 /\ pc' = IF NextPresent(backup, idx) > Len(ListOrder)
                          THEN "rs_finish" ELSE "rs_remove"
                 /\ UNCHANGED error
            ELSE /\ error' = ErrAt("restore", ListOrder[idx])
                 /\ pc' = RestoreReturn
                 /\ UNCHANGED <<root, backup, idx>>
    /\ UNCHANGED <<backup_exists, staging_exists, staging, archive,
                   tmptar, flags, config, bootLocals, current_version,
                   pending_update_version, hash_sums, processed_count, ret,
                   boots, crashes, histNoBudget>>
    /\ UNCHANGED <<bootHist, unitState>>

\* 1212-1222: _copy_item_recursive(backup entry, root entry); a failed copy
\* ends the restore with an error and leaves the flag
restore_copy ==
    /\ pc = "rs_copy"
    /\ \E copied \in StorageOutcomes :
         /\ faults' = (IF copied THEN faults ELSE faults + 1)
         /\ IF copied
            THEN /\ root' = [root EXCEPT ![ListOrder[idx]] = backup[ListOrder[idx]]]
                 /\ idx' = NextPresent(backup, idx)
                 /\ pc' = IF NextPresent(backup, idx) > Len(ListOrder)
                          THEN "rs_finish" ELSE "rs_remove"
                 /\ UNCHANGED error
            ELSE /\ error' = ErrAt("restore", ListOrder[idx])
                 /\ pc' = RestoreReturn
                 /\ UNCHANGED <<root, idx>>
    /\ UNCHANGED <<backup_exists, backup, staging_exists, staging, archive,
                   tmptar, flags, config, bootLocals, current_version,
                   pending_update_version, hash_sums, processed_count, ret,
                   boots, crashes, histNoBudget>>
    /\ UNCHANGED <<bootHist, unitState>>

\* 1224-1227: every item restored: remove_applying_flag, return True
restore_finish ==
    /\ pc = "rs_finish"
    /\ applying_flag' = FALSE
    /\ pc' = RestoreReturn
    /\ UNCHANGED <<root, backup_exists, backup, staging_exists, staging,
                   archive, tmptar, update_flag, cfg_update_on_boot, config,
                   bootLocals, error, current_version,
                   pending_update_version, hash_sums, idx, processed_count,
                   ret, history>>
    /\ UNCHANGED <<bootHist, unitState>>

\* ------------------------------------------------------------ apply_update
\* the history of the boot once it is of no use any more
NoSnapshot == [exists |-> FALSE, entries |-> EmptyDir]

\* apply_update, manager_firmware.py 827-848: the error is cleared, the
\* archive must exist
apply_update_start ==
    /\ pc = "ap_start"
    /\ error' = NoError
    /\ preRoot' = root
    /\ stages_passed' = {}
    /\ IF archive = NoArchive
       THEN /\ outcome' = "apply_failed"
            /\ pc' = "ap_return"
       ELSE /\ pc' = "ap_decompress"
            /\ UNCHANGED outcome
    /\ UNCHANGED <<persistent, config, bootLocals, current_version,
                   pending_update_version, hash_sums, idx, processed_count,
                   ret, budget, interrupted, merge_changed, merge_failed,
                   died>>
    /\ bootBackup' = NoSnapshot
    /\ prevUpToDate' = FALSE
    /\ UNCHANGED unitState

\* _decompress_firmware (605-648) and apply_update 850-856: the inflated
\* stream is written to /update.tmp.tar; a corrupt stream fails
_decompress_firmware ==
    /\ pc = "ap_decompress"
    /\ tmptar' = TRUE
    /\ IF archive.zok
       THEN /\ stages_passed' = stages_passed \cup {"decompress"}
            /\ pc' = "ap_extract"
            /\ UNCHANGED error
       ELSE /\ error' = Err("decompression")
            /\ pc' = "ap_fail_cleanup_tar"
            /\ UNCHANGED stages_passed
    /\ UNCHANGED <<root, backup_exists, backup, staging_exists, staging,
                   archive, flags, config, bootLocals, current_version,
                   pending_update_version, hash_sums, idx, processed_count,
                   ret, histNoStages>>
    /\ UNCHANGED <<bootHist, unitState>>

\* _extract_firmware 755-775: the staging directory is created if it does
\* not exist, hash_sums is reset, the tar file is opened
_extract_firmware_start ==
    /\ pc = "ap_extract"
    /\ staging_exists' = TRUE
    /\ hash_sums' = EmptyManifest
    /\ processed_count' = 0
    /\ idx' = NextPresent(TarEntries(archive), 0)
    /\ pc' = "ap_entry"
    /\ UNCHANGED <<root, backup_exists, backup, staging, archive, tmptar,
                   flags, config, bootLocals, error, current_version,
                   pending_update_version, ret, history>>
    /\ UNCHANGED <<bootHist, unitState>>

\* _process_tar_entry 726-737 without the comparison of the two digests
HashMismatch_NoCompare(sums, name, content) ==
    /\ sums # EmptyManifest
    /\ sums[name] # NoDigest
    /\ FALSE

\* _process_tar_entry 726-737: the digest is checked when hash_sums is not
\* empty and has an entry for the file; TRUE when the file is rejected
HashMismatch(sums, name, content) ==
    /\ sums # EmptyManifest
    /\ sums[name] # NoDigest
    /\ Sha256(content) # sums[name]

\* _process_tar_entry (672-753), one entry of the loop of _extract_firmware
\* (776-782): integrity.json is written and parsed into hash_sums, any other
\* file is written and its digest compared
_process_tar_entry ==
    /\ pc = "ap_entry"
    /\ idx <= Len(ListOrder)
    /\ LET name == ListOrder[idx]
           content == TarEntries(archive)[name] IN
         /\ staging' = [staging EXCEPT ![name] = content]
         /\ IF name = "integrity.json"
            THEN /\ hash_sums' = archive.digests
                 /\ UNCHANGED error
            ELSE /\ error' = IF HashMismatch(hash_sums, name, content)
                             THEN ErrAt("hash_mismatch", name)
                             ELSE error
                 /\ UNCHANGED hash_sums
    /\ processed_count' = processed_count + 1
    /\ idx' = NextPresent(TarEntries(archive), idx)
    /\ UNCHANGED <<root, backup_exists, backup, staging_exists, archive,
                   tmptar, flags, config, bootLocals, current_version,
                   pending_update_version, pc, ret, history>>
    /\ UNCHANGED <<bootHist, unitState>>

\* _check_core_files_exist (1236-1265): the core files missing from staging
MissingCoreFiles(core, dir) == {f \in core : dir[f] = NoFile}

\* ", ".join(missing_files) (1261): the names of the missing files; there
\* is one name at most, as at most one core file is configured
MissingNames(missing) == CHOOSE f \in missing : TRUE

\* _extract_firmware 784-805 and apply_update 860-875 with a core-files check
\* that passes whatever staging holds
_extract_firmware_finish_NoCoreCheck ==
    /\ pc = "ap_entry"
    /\ idx > Len(ListOrder)
    /\ IF error # NoError
       THEN /\ pc' = "ap_fail_cleanup"
            /\ UNCHANGED <<error, stages_passed>>
       ELSE IF processed_count = 0
       THEN /\ error' = Err("empty_archive")
            /\ pc' = "ap_fail_cleanup"
            /\ UNCHANGED stages_passed
       ELSE /\ stages_passed' = stages_passed \cup {"extract", "core"}
            /\ pc' = "ap_backup"
            /\ UNCHANGED error
    /\ UNCHANGED <<persistent, config, bootLocals, current_version,
                   pending_update_version, hash_sums, idx, processed_count,
                   ret, histNoStages>>
    /\ UNCHANGED <<bootHist, unitState>>

\* _extract_firmware 784-805 without the test of error_count and self.error
_extract_firmware_finish_IgnoreErrors ==
    /\ pc = "ap_entry"
    /\ idx > Len(ListOrder)
    /\ IF processed_count = 0
       THEN /\ error' = Err("empty_archive")
            /\ pc' = "ap_fail_cleanup"
            /\ UNCHANGED stages_passed
       ELSE IF MissingCoreFiles(core_system_files, staging) # {}
       THEN /\ error' = ErrAt("missing_core_files",
                            MissingNames(MissingCoreFiles(core_system_files,
                                                          staging)))
            /\ stages_passed' = stages_passed \cup {"extract"}
            /\ pc' = "ap_fail_cleanup"
       ELSE /\ stages_passed' = stages_passed \cup {"extract", "core"}
            /\ pc' = "ap_backup"
            /\ UNCHANGED error
    /\ UNCHANGED <<persistent, config, bootLocals, current_version,
                   pending_update_version, hash_sums, idx, processed_count,
                   ret, histNoStages>>
    /\ UNCHANGED <<bootHist, unitState>>

\* _extract_firmware 784-805 and apply_update 860-875: an error or an empty
\* archive fails the extraction; then the core files are looked up
_extract_firmware_finish ==
    /\ pc = "ap_entry"
    /\ idx > Len(ListOrder)
    /\ IF error # NoError
       THEN /\ pc' = "ap_fail_cleanup"
            /\ UNCHANGED <<error, stages_passed>>
       ELSE IF processed_count = 0
       THEN /\ error' = Err("empty_archive")
            /\ pc' = "ap_fail_cleanup"
            /\ UNCHANGED stages_passed
       ELSE IF MissingCoreFiles(core_system_files, staging) # {}
       THEN /\ error' = ErrAt("missing_core_files",
                            MissingNames(MissingCoreFiles(core_system_files,
                                                          staging)))
            /\ stages_passed' = stages_passed \cup {"extract"}
            /\ pc' = "ap_fail_cleanup"
       ELSE /\ stages_passed' = stages_passed \cup {"extract", "core"}
            /\ pc' = "ap_backup"
            /\ UNCHANGED error
    /\ UNCHANGED <<persistent, config, bootLocals, current_version,
                   pending_update_version, hash_sums, idx, processed_count,
                   ret, histNoStages>>
    /\ UNCHANGED <<bootHist, unitState>>

\* the top-level items _backup_existing_files copies: everything in root
\* but /backup, /update, the archive, the temporary tar, the log and the two
\* flag files (1000-1020)
BackupItems(r) == r

\* _backup_existing_files 994-1012: /backup is created if it does not
\* exist, root is listed
_backup_existing_files_start ==
    /\ pc = "ap_backup"
    /\ backup_exists' = TRUE
    /\ idx' = NextPresent(BackupItems(root), 0)
    /\ IF NextPresent(BackupItems(root), 0) > Len(ListOrder)
       THEN /\ pc' = "ap_mark"
            /\ stages_passed' = stages_passed \cup {"backup"}
       ELSE /\ pc' = "ap_backup_item"
            /\ UNCHANGED stages_passed
    /\ UNCHANGED <<root, backup, staging_exists, staging, archive, tmptar,
                   flags, config, bootLocals, error, current_version,
                   pending_update_version, hash_sums, processed_count, ret,
                   budget, interrupted, outcome, preRoot, merge_changed,
                   merge_failed, died>>
    /\ UNCHANGED <<bootHist, unitState>>

\* _backup_existing_files 1013-1038 with a loop that copies nothing
_backup_existing_files_item_SkipCopy ==
    /\ pc = "ap_backup_item"
    /\ idx' = NextPresent(BackupItems(root), idx)
    /\ IF NextPresent(BackupItems(root), idx) > Len(ListOrder)
       THEN /\ pc' = "ap_mark"
            /\ stages_passed' = stages_passed \cup {"backup"}
       ELSE UNCHANGED <<pc, stages_passed>>
    /\ UNCHANGED <<root, backup_exists, backup, staging_exists, staging,
                   archive, tmptar, flags, config, bootLocals, error,
                   current_version, pending_update_version, hash_sums,
                   processed_count, ret, budget, interrupted, outcome,
                   preRoot, merge_changed, merge_failed, died>>
    /\ UNCHANGED <<bootHist, unitState>>

\* _backup_existing_files 1013-1038: one item is copied; the first failed
\* copy aborts the backup
_backup_existing_files_item ==
    /\ pc = "ap_backup_item"
    /\ \E copied \in StorageOutcomes :
         /\ faults' = (IF copied THEN faults ELSE faults + 1)
         /\ IF copied
            THEN /\ backup' = [backup EXCEPT ![ListOrder[idx]] = root[ListOrder[idx]]]
                 /\ idx' = NextPresent(BackupItems(root), idx)
                 /\ IF NextPresent(BackupItems(root), idx) > Len(ListOrder)
                    THEN /\ pc' = "ap_mark"
                         /\ stages_passed' = stages_passed \cup {"backup"}
                    ELSE UNCHANGED <<pc, stages_passed>>
                 /\ UNCHANGED error
            ELSE /\ error' = ErrAt("backup", ListOrder[idx])
                 /\ pc' = "ap_fail_cleanup"
                 /\ UNCHANGED <<backup, idx, stages_passed>>
    /\ UNCHANGED <<root, backup_exists, staging_exists, staging, archive,
                   tmptar, flags, config, bootLocals, current_version,
                   pending_update_version, hash_sums, processed_count, ret,
                   boots, crashes, interrupted, outcome, preRoot, merge_changed,
                   merge_failed, died>>
    /\ UNCHANGED <<bootHist, unitState>>

\* apply_update 885-901 without the creation of /__applying
apply_update_mark_NoFlag ==
    /\ pc = "ap_mark"
    /\ idx' = NextPresent(staging, 0)
    /\ pc' = IF NextPresent(staging, 0) > Len(ListOrder)
             THEN "ap_merge_done" ELSE "ap_merge"
    /\ UNCHANGED <<root, backup_exists, backup, staging_exists, staging,
                   archive, tmptar, flags, config, bootLocals, error,
                   current_version, pending_update_version, hash_sums,
                   processed_count, ret, history>>
    /\ UNCHANGED <<bootHist, unitState>>

\* apply_update 885-901 and _move_from_update_to_root 1131-1143, 1078:
\* /__applying is created, then the staging directory is listed
apply_update_mark ==
    /\ pc = "ap_mark"
    /\ \E created \in StorageOutcomes :
         /\ faults' = (IF created THEN faults ELSE faults + 1)
         /\ IF created
            THEN /\ applying_flag' = TRUE
                 /\ idx' = NextPresent(staging, 0)
                 /\ pc' = IF NextPresent(staging, 0) > Len(ListOrder)
                          THEN "ap_merge_done" ELSE "ap_merge"
                 /\ UNCHANGED error
            ELSE /\ error' = Err("applying_flag")
                 /\ pc' = "ap_fail_cleanup"
                 /\ UNCHANGED <<applying_flag, idx>>
    /\ UNCHANGED <<root, backup_exists, backup, staging_exists, staging,
                   archive, tmptar, update_flag, cfg_update_on_boot, config,
                   bootLocals, current_version, pending_update_version,
                   hash_sums, processed_count, ret, boots, crashes, histNoBudget>>
    /\ UNCHANGED <<bootHist, unitState>>

\* _merge_directories_recursive 1080-1114 and 1126-1129, one item: the
\* staging entry is renamed onto the root entry; a rename that raises fails
\* the merge, and apply_update (902-907) then calls restore_from_backup
_merge_directories_recursive ==
    /\ pc = "ap_merge"
    /\ \E renamed \in StorageOutcomes :
         /\ faults' = (IF renamed THEN faults ELSE faults + 1)
         /\ IF renamed
            THEN /\ root' = [root EXCEPT ![ListOrder[idx]] = staging[ListOrder[idx]]]
                 /\ staging' = [staging EXCEPT ![ListOrder[idx]] = NoFile]
                 /\ merge_changed' = TRUE
                 /\ idx' = NextPresent(staging, idx)
                 /\ pc' = IF NextPresent(staging, idx) > Len(ListOrder)
                          THEN "ap_merge_done" ELSE "ap_merge"
                 /\ UNCHANGED <<error, merge_failed, ret>>
            ELSE /\ error' = ErrAt("merge", ListOrder[idx])
                 /\ merge_failed' = TRUE
                 /\ ret' = "apply"
                 /\ pc' = "rs_start"
                 /\ UNCHANGED <<root, staging, merge_changed, idx>>
    /\ UNCHANGED <<backup_exists, backup, staging_exists, archive, tmptar,
                   flags, config, bootLocals, current_version,
                   pending_update_version, hash_sums, processed_count,
                   boots, crashes, interrupted, outcome, preRoot, stages_passed, died>>
    /\ UNCHANGED <<bootHist, unitState>>

\* _merge_directories_recursive 1116-1124: the emptied staging directory is
\* removed
_merge_directories_finish ==
    /\ pc = "ap_merge_done"
    /\ staging_exists' = FALSE
    /\ pc' = "ap_version"
    /\ UNCHANGED <<root, backup_exists, backup, staging, archive, tmptar,
                   flags, config, bootLocals, error, current_version,
                   pending_update_version, hash_sums, idx, processed_count,
                   ret, history>>
    /\ UNCHANGED <<bootHist, unitState>>

\* _update_version_file without the write of /version.txt (815-816)
_update_version_file_NoWrite ==
    /\ pc = "ap_version"
    /\ pending_update_version' = NoVersion
    /\ pc' = "ap_cleanup"
    /\ UNCHANGED <<root, backup_exists, backup, staging_exists, staging,
                   archive, tmptar, flags, config, bootLocals, error,
                   current_version, hash_sums, idx, processed_count, ret,
                   history>>
    /\ UNCHANGED <<bootHist, unitState>>

\* _update_version_file with a failed write taken for a failed merge: the
\* rollback of apply_update 907 is started
_update_version_file_RollBack ==
    /\ pc = "ap_version"
    /\ IF pending_update_version = NoVersion
       THEN /\ pc' = "ap_cleanup"
            /\ UNCHANGED <<root, current_version, pending_update_version,
                           error, faults, ret>>
       ELSE \E written \in StorageOutcomes :
              IF written
              THEN /\ root' = [root EXCEPT
                                 !["version.txt"] = pending_update_version]
                   /\ current_version' = pending_update_version
                   /\ pending_update_version' = NoVersion
                   /\ pc' = "ap_cleanup"
                   /\ UNCHANGED <<error, faults, ret>>
              ELSE /\ error' = Err("version_file")
                   /\ faults' = faults + 1
                   /\ ret' = "apply"
                   /\ pc' = "rs_start"
                   /\ UNCHANGED <<root, current_version,
                                  pending_update_version>>
    /\ UNCHANGED <<backup_exists, backup, staging_exists, staging, archive,
                   tmptar, flags, config, bootLocals, hash_sums, idx,
                   processed_count, boots, crashes, histNoBudget>>
    /\ UNCHANGED <<bootHist, unitState>>

\* _update_version_file (807-825) called at apply_update 912-916: a failed
\* write is logged and the update goes on
_update_version_file ==
    /\ pc = "ap_version"
    /\ IF pending_update_version = NoVersion
       THEN UNCHANGED <<root, current_version, pending_update_version, error,
                        faults>>
       ELSE \E written \in StorageOutcomes :
              IF written
              THEN /\ root' = [root EXCEPT
                                 !["version.txt"] = pending_update_version]
                   /\ current_version' = pending_update_version
                   /\ pending_update_version' = NoVersion
                   /\ UNCHANGED <<error, faults>>
              ELSE /\ error' = Err("version_file")
                   /\ faults' = faults + 1
                   /\ UNCHANGED <<root, current_version,
                                  pending_update_version>>
    /\ pc' = "ap_cleanup"
    /\ UNCHANGED <<backup_exists, backup, staging_exists, staging, archive,
                   tmptar, flags, config, bootLocals, hash_sums, idx,
                   processed_count, ret, boots, crashes, histNoBudget>>
    /\ UNCHANGED <<bootHist, unitState>>

\* _cleanup_temp_update_files (1267-1314) at apply_update 920: the
\* temporary tar, the staging directory and the archive are removed
apply_update_cleanup ==
    /\ pc = "ap_cleanup"
    /\ tmptar' = FALSE
    /\ staging_exists' = FALSE
    /\ staging' = EmptyDir
    /\ archive' = NoArchive
    /\ pc' = "ap_rm_applying"
    /\ UNCHANGED <<root, backup_exists, backup, flags, config, bootLocals,
                   error, current_version, pending_update_version,
                   hash_sums, idx, processed_count, ret, history>>
    /\ UNCHANGED <<bootHist, unitState>>

\* remove_applying_flag (334-340) at apply_update 922
remove_applying_flag ==
    /\ pc = "ap_rm_applying"
    /\ applying_flag' = FALSE
    /\ pc' = "ap_rm_update"
    /\ UNCHANGED <<root, backup_exists, backup, staging_exists, staging,
                   archive, tmptar, update_flag, cfg_update_on_boot, config,
                   bootLocals, error, current_version,
                   pending_update_version, hash_sums, idx, processed_count,
                   ret, history>>
    /\ UNCHANGED <<bootHist, unitState>>

\* apply_update 927-933: _cleanup_success_flags, return True
apply_update_success ==
    /\ pc = "ap_rm_update"
    /\ update_flag' = _cleanup_success_flags(update_flag)
    /\ outcome' = "committed"
    /\ pc' = "ap_return"
    /\ UNCHANGED <<root, backup_exists, backup, staging_exists, staging,
                   archive, tmptar, applying_flag, cfg_update_on_boot,
                   config, bootLocals, error, current_version,
                   pending_update_version, hash_sums, idx, processed_count,
                   ret, budget, interrupted, preRoot, merge_changed,
                   merge_failed, stages_passed, died>>
    /\ UNCHANGED <<bootHist, unitState>>

\* apply_update 851-856: after a failed decompression only the temporary
\* tar is removed; return False
apply_update_decompress_failed ==
    /\ pc = "ap_fail_cleanup_tar"
    /\ tmptar' = FALSE
    /\ outcome' = "apply_failed"
    /\ pc' = "ap_return"
    /\ UNCHANGED <<root, backup_exists, backup, staging_exists, staging,
                   archive, flags, config, bootLocals, error,
                   current_version, pending_update_version, hash_sums, idx,
                   processed_count, ret, budget, interrupted, preRoot,
                   merge_changed, merge_failed, stages_passed, died>>
    /\ UNCHANGED <<bootHist, unitState>>

\* apply_update 860-865, 870-874, 879-883, 892-897, 908-910: after any later
\* failure the temporary tar and the staging directory are removed; return
\* False
apply_update_failed ==
    /\ pc = "ap_fail_cleanup"
    /\ tmptar' = FALSE
    /\ staging_exists' = FALSE
    /\ staging' = EmptyDir
    /\ outcome' = "apply_failed"
    /\ pc' = "ap_return"
    /\ UNCHANGED <<root, backup_exists, backup, archive, flags, config,
                   bootLocals, error, current_version,
                   pending_update_version, hash_sums, idx, processed_count,
                   ret, budget, interrupted, preRoot, merge_changed,
                   merge_failed, stages_passed, died>>
    /\ UNCHANGED <<bootHist, unitState>>

\* ------------------------------------------------------------------ Next
Next ==
    \/ PowerLoss
    \/ PowerCycle
    \/ machine_reset
    \/ Boot_CheckApplying
    \/ Boot_RemoveApplying
    \/ Boot_ReadCounter
    \/ Boot_OpenCounter
    \/ Boot_WriteCounter
    \/ Boot_Network
    \/ Boot_FirmwareInit
    \/ check_update
    \/ Boot_AfterCheck
    \/ download_update
    \/ Boot_AfterApply
    \/ Boot_Post
    \/ restore_start
    \/ restore_remove
    \/ restore_copy
    \/ restore_finish
    \/ apply_update_start
    \/ _decompress_firmware
    \/ _extract_firmware_start
    \/ _process_tar_entry
    \/ _extract_firmware_finish
    \/ _backup_existing_files_start
    \/ _backup_existing_files_item
    \/ apply_update_mark
    \/ _merge_directories_recursive
    \/ _merge_directories_finish
    \/ _update_version_file
    \/ apply_update_cleanup
    \/ remove_applying_flag
    \/ apply_update_success
    \/ apply_update_decompress_failed
    \/ apply_update_failed

Spec == Init /\ [][Next]_vars

\* ------------------------------------------- the version comparison alone
\* the device while a function is checked on its own: not booted
DeviceAtRest == DeviceInit /\ core_system_files = {}

\* the numbers a component of a version is drawn from: 0..MaxVersionPart,
\* and 9 and 10 for the step from one digit to two
PartValues == 0..MaxVersionPart \cup {9, 10}

\* well-formed versions, each with the integers it was written from
WellFormedSpecimens ==
    { [text |-> VersionString(a, b, c), triple |-> <<a, b, c>>,
       well_formed |-> TRUE] : a \in PartValues, b \in PartValues, c \in PartValues }

\* "1.2", "1.2.3.4", "a.b.c" (test_parse_semver_invalid), "invalid.version"
\* (test_compare_versions_invalid_format) and "1..3"
MalformedVersions ==
    { <<1, Dot, 2>>, <<1, Dot, 2, Dot, 3, Dot, 4>>,
      <<Letter, Dot, Letter, Dot, Letter>>, <<Letter, Dot, Letter>>,
      <<1, Dot, Dot, 3>> }

MalformedSpecimens ==
    { [text |-> t, triple |-> <<>>, well_formed |-> FALSE] :
        t \in MalformedVersions }

VersionSpecimens == WellFormedSpecimens \cup MalformedSpecimens

InitCompare ==
    /\ DeviceAtRest
    /\ cmp_current \in VersionSpecimens
    /\ cmp_latest \in VersionSpecimens
    /\ cmp_returned = "none"
    /\ cmp_error = NoError
    /\ MetadataAtRest
    /\ MergeAtRest
    /\ DownloadAtRest
    /\ ObjectsAtRest

\* updater.current_version = ...; updater._compare_versions(...)
\* (manager_firmware.py 423-437): the return value is True or False, a
\* ValueError of _parse_semver never leaves the function
CompareVersions ==
    /\ cmp_returned = "none"
    /\ LET r == _compare_versions(cmp_current.text, cmp_latest.text) IN
         /\ cmp_returned' = (IF r.newer THEN "True" ELSE "False")
         /\ cmp_error' = (IF r.ok THEN NoError ELSE Err("version"))
    /\ UNCHANGED <<cmp_current, cmp_latest, exceptCompare>>

NextCompare == CompareVersions

SpecCompare == InitCompare /\ [][NextCompare]_vars

\* ------------------------------------------- the release metadata alone
\* the name of an asset, cut into its stem and its extensions
FirmwareAsset == <<"firmware", ".tar", ".zlib">>

OtherAsset == <<"other-file", ".txt">>

TarAsset == <<"firmware", ".tar">>

SignatureAsset == <<"firmware", ".tar", ".zlib", ".sig">>

\* the suffix of the firmware archive, ".tar.zlib" (_get_firmware_url 564)
ArchiveSuffix == <<".tar", ".zlib">>

\* str.endswith
EndsWith(name, suffix) ==
    /\ Len(name) >= Len(suffix)
    /\ SubSeq(name, Len(name) - Len(suffix) + 1, Len(name)) = suffix

\* the "assets" lists a release may carry
AssetLists ==
    { <<>>, <<OtherAsset>>, <<FirmwareAsset>>, <<OtherAsset, FirmwareAsset>>,
      <<TarAsset, SignatureAsset>> }

\* the tag_name values a release may carry: "", "0.0.0", "v0.0.0", "1.2.0",
\* "v1.2.0", "1.0.0"
TagNames ==
    { <<>>, VersionString(0, 0, 0), <<LowerV>> \o VersionString(0, 0, 0),
      VersionString(1, 2, 0), <<LowerV>> \o VersionString(1, 2, 0),
      VersionString(1, 0, 0) }

\* a JSON object with keys
ReleaseObject(has_tag, tag, assets) ==
    [kind |-> "object", empty |-> FALSE, has_tag |-> has_tag,
     tag_name |-> tag, assets |-> assets]

\* the documents the metadata request may deliver: text that is no JSON, a
\* JSON array, the empty object, objects with and without tag_name
MetadataDocuments ==
    { [NoDocument EXCEPT !.kind = "not_json"],
      [NoDocument EXCEPT !.kind = "array"],
      [NoDocument EXCEPT !.kind = "object"] }
    \cup { ReleaseObject(TRUE, t, a) : t \in TagNames, a \in AssetLists }
    \cup { ReleaseObject(FALSE, <<>>, a) : a \in AssetLists }

\* latest_release.get("tag_name", "0.0.0")
TagOrDefault(doc) ==
    IF doc.has_tag THEN doc.tag_name ELSE VersionString(0, 0, 0)

\* latest_version_str[1:] if it starts with "v"
StripV(tag) ==
    IF Len(tag) > 0 /\ tag[1] = LowerV THEN SubSeq(tag, 2, Len(tag)) ELSE tag

\* FirmwareUpdater._parse_release_metadata (392-421): the release and its
\* version, or None with error set
_parse_release_metadata(doc) ==
    IF doc.kind = "not_json" THEN [state |-> "rejected", version |-> NoVersion]
    ELSE IF doc.kind # "object" THEN [state |-> "rejected", version |-> NoVersion]
    ELSE IF doc.empty THEN [state |-> "rejected", version |-> NoVersion]
    ELSE IF TagOrDefault(doc) = <<>> \/ TagOrDefault(doc) = VersionString(0, 0, 0)
    THEN [state |-> "rejected", version |-> NoVersion]
    ELSE [state |-> "accepted", version |-> StripV(TagOrDefault(doc))]

\* the assets of a release whose name ends in the archive suffix, in order
MatchingAssets(doc) ==
    SelectSeq(doc.assets, LAMBDA name : EndsWith(name, ArchiveSuffix))

InitMetadata ==
    /\ DeviceAtRest
    /\ CompareAtRest
    /\ MergeAtRest
    /\ DownloadAtRest
    /\ ObjectsAtRest
    /\ md_document \in MetadataDocuments
    /\ md_current \in {VersionString(1, 0, 0), VersionString(1, 2, 0)}
    /\ md_parsed = NotParsed
    /\ md_available = "none"
    /\ md_asset = "none"
    /\ md_error = NoError

\* check_update 500-504: parse_result = self._parse_release_metadata(...)
ParseReleaseMetadata ==
    /\ md_parsed = NotParsed
    /\ md_parsed' = _parse_release_metadata(md_document)
    /\ md_error' = (IF _parse_release_metadata(md_document).state = "accepted"
                    THEN NoError ELSE Err("metadata"))
    /\ UNCHANGED <<md_document, md_current, md_available, md_asset, exceptMetadata>>

\* check_update 506-521: the version of an accepted release is compared and
\* the result returned as is_newer_available
ReportAvailable ==
    /\ md_parsed.state = "accepted"
    /\ md_available = "none"
    /\ LET r == _compare_versions(md_current, md_parsed.version) IN
         /\ md_available' = (IF r.newer THEN "True" ELSE "False")
         /\ md_error' = (IF r.ok THEN NoError ELSE Err("version"))
    /\ UNCHANGED <<md_document, md_current, md_parsed, md_asset, exceptMetadata>>

\* download_update 541-547 and _get_firmware_url 559-568: the first asset
\* whose name ends in ".tar.zlib", or the error "No firmware asset found"
GetFirmwareUrl ==
    /\ md_available = "True"
    /\ md_asset = "none"
    /\ IF MatchingAssets(md_document) # <<>>
       THEN /\ md_asset' = "found"
            /\ md_error' = NoError
       ELSE /\ md_asset' = "missing"
            /\ md_error' = Err("no_firmware_asset")
    /\ UNCHANGED <<md_document, md_current, md_parsed, md_available, exceptMetadata>>

NextMetadata ==
    \/ ParseReleaseMetadata
    \/ ReportAvailable
    \/ GetFirmwareUrl

SpecMetadata == InitMetadata /\ [][NextMetadata]_vars

\* ------------------------------------------------ the recursive merge alone
\* what a top-level name is in a tree: nothing, a file, or a directory with
\* files
Shapes ==
    { [type |-> "none", kids |-> {}], [type |-> "file", kids |-> {}] }
    \cup { [type |-> "dir", kids |-> k] : k \in SUBSET ChildNames }

\* the tree in which every top-level name has the shape given for it and
\* every file has content c
TreeOf(shape, c) ==
    [q \in Paths |->
        IF Len(q) = 1
        THEN (IF shape[q[1]].type = "file" THEN FileNode(c)
              ELSE IF shape[q[1]].type = "dir" THEN DirNode ELSE NoNode)
        ELSE (IF shape[q[1]].type = "dir" /\ q[2] \in shape[q[1]].kids
              THEN FileNode(c) ELSE NoNode)]

Trees(c) == { TreeOf(shape, c) : shape \in [TopNames -> Shapes] }

\* FirmwareUpdater._path_exists (1049-1058)
_path_exists(tree, path) == tree[path].type # "none"

\* FirmwareUpdater._is_existing_path_a_directory (1040-1046)
_is_existing_path_a_directory(tree, path) == tree[path].type = "dir"

\* path q is path p or lies below it
Under(p, q) == Len(q) >= Len(p) /\ SubSeq(q, 1, Len(p)) = p

\* uos.listdir of a directory of a tree (the top is <<>>)
Listdir(tree, dir) ==
    SelectSeq(IF dir = <<>> THEN TopOrder ELSE ChildOrder,
              LAMBDA n : _path_exists(tree, Append(dir, n)))

\* uos.rename(source, dest) raises: os.rename refuses to put a file in the
\* place of a directory (IsADirectoryError) and a directory in the place of
\* a file (NotADirectoryError)
uos_rename_raises(source, dest) ==
    dest.type # "none" /\ source.type # dest.type

InitMerge ==
    /\ DeviceAtRest
    /\ CompareAtRest
    /\ MetadataAtRest
    /\ DownloadAtRest
    /\ ObjectsAtRest
    /\ mg_root \in Trees(OldContent) \ {EmptyTree}
    /\ mg_staging_exists \in BOOLEAN
    /\ mg_staging \in (IF mg_staging_exists THEN Trees(NewContent)
                        ELSE {EmptyTree})
    /\ mg_stack = <<>>
    /\ mg_result = "ready"
    /\ mg_pre = [root |-> mg_root, staging |-> mg_staging]

\* the running call of _merge_directories_recursive
TopFrame == mg_stack[Len(mg_stack)]

\* _move_from_update_to_root (1131-1143) and _merge_directories_recursive
\* 1064-1078: without /update there is nothing to move; else /update is
\* listed
merge_start ==
    /\ mg_result = "ready"
    /\ IF ~mg_staging_exists
       THEN /\ mg_result' = "ok"
            /\ UNCHANGED mg_stack
       ELSE /\ mg_result' = "running"
            /\ mg_stack' = <<[source_dir |-> <<>>,
                              items |-> Listdir(mg_staging, <<>>)]>>
    /\ UNCHANGED <<mg_root, mg_staging, mg_staging_exists, mg_pre,
                   exceptMerge>>

\* one item with the destination deleted first and renamed onto later
merge_item_DeleteThenCreate ==
    /\ mg_result = "running"
    /\ TopFrame.items # <<>>
    /\ LET item == Append(TopFrame.source_dir, Head(TopFrame.items))
           rest == [TopFrame EXCEPT !.items = Tail(TopFrame.items)]
       IN
       IF _path_exists(mg_root, item)
       THEN /\ mg_root' = [q \in Paths |->
                              IF Under(item, q) THEN NoNode ELSE mg_root[q]]
            /\ UNCHANGED <<mg_staging, mg_stack, mg_result>>
       ELSE /\ mg_root' = [q \in Paths |->
                              IF Under(item, q) THEN mg_staging[q]
                              ELSE mg_root[q]]
            /\ mg_staging' = [q \in Paths |->
                                 IF Under(item, q) THEN NoNode
                                 ELSE mg_staging[q]]
            /\ mg_stack' = [mg_stack EXCEPT ![Len(mg_stack)] = rest]
            /\ UNCHANGED mg_result
    /\ UNCHANGED <<mg_staging_exists, mg_pre, exceptMerge>>

\* _merge_directories_recursive 1080-1114 and 1126-1129, one item of the
\* loop: two directories are merged by a nested call; in every other case
\* the item is renamed onto its destination, whatever is there; a rename
\* that raises ends this call and every call around it with False
merge_item ==
    /\ mg_result = "running"
    /\ TopFrame.items # <<>>
    /\ LET item == Append(TopFrame.source_dir, Head(TopFrame.items))
           rest == [TopFrame EXCEPT !.items = Tail(TopFrame.items)]
           source_is_dir == _is_existing_path_a_directory(mg_staging, item)
           dest_exists == _path_exists(mg_root, item)
           dest_is_dir ==
               dest_exists /\ _is_existing_path_a_directory(mg_root, item)
       IN
       IF dest_exists /\ source_is_dir /\ dest_is_dir
       THEN /\ mg_stack' =
                  Append([mg_stack EXCEPT ![Len(mg_stack)] = rest],
                         [source_dir |-> item,
                          items |-> Listdir(mg_staging, item)])
            /\ UNCHANGED <<mg_root, mg_staging, mg_result>>
       ELSE IF uos_rename_raises(mg_staging[item], mg_root[item])
       THEN /\ mg_result' = "failed"
            /\ mg_stack' = <<>>
            /\ UNCHANGED <<mg_root, mg_staging>>
       ELSE /\ mg_root' = [q \in Paths |->
                              IF Under(item, q) THEN mg_staging[q]
                              ELSE mg_root[q]]
            /\ mg_staging' = [q \in Paths |->
                                 IF Under(item, q) THEN NoNode
                                 ELSE mg_staging[q]]
            /\ mg_stack' = [mg_stack EXCEPT ![Len(mg_stack)] = rest]
            /\ UNCHANGED mg_result
    /\ UNCHANGED <<mg_staging_exists, mg_pre, exceptMerge>>

\* _merge_directories_recursive 1116-1124: after the loop the source
\* directory is removed and the call returns True
merge_rmdir ==
    /\ mg_result = "running"
    /\ TopFrame.items = <<>>
    /\ IF TopFrame.source_dir = <<>>
       THEN /\ mg_staging_exists' = FALSE
            /\ UNCHANGED mg_staging
       ELSE /\ mg_staging' = [mg_staging EXCEPT ![TopFrame.source_dir] = NoNode]
            /\ UNCHANGED mg_staging_exists
    /\ mg_stack' = SubSeq(mg_stack, 1, Len(mg_stack) - 1)
    /\ mg_result' = (IF Len(mg_stack) = 1 THEN "ok" ELSE "running")
    /\ UNCHANGED <<mg_root, mg_pre, exceptMerge>>

NextMerge ==
    \/ merge_start
    \/ merge_item
    \/ merge_rmdir

SpecMerge == InitMerge /\ [][NextMerge]_vars

\* ---- the merge of check_fw_update.py, the implementation before this one
\* check_fw_update.py 685-703: what is at the destination is removed,
\* a directory with everything in it
RefRemove(tree, name) ==
    [q \in Paths |-> IF Under(<<name>>, q) THEN NoNode ELSE tree[q]]

\* check_fw_update.py 705-713: uos.rename of the top-level item
RefRename(tree, source, name) ==
    [q \in Paths |-> IF Under(<<name>>, q) THEN source[q] ELSE tree[q]]

\* check_fw_update.py 680-714: the loop over the top-level items of /update
RECURSIVE ReferenceMerge(_, _, _)
ReferenceMerge(tree, source, items) ==
    IF items = <<>> THEN tree
    ELSE ReferenceMerge(RefRename(RefRemove(tree, Head(items)), source,
                                  Head(items)),
                        source, Tail(items))

\* ------------------------------------------------------ _download_file alone
\* max_redirects as this updater is configured (the default of
\* FirmwareUpdater.__init__ is 10)
ConfiguredMaxRedirects == 2

\* the chunk sizes the updater may be configured with
ChunkSizes == {1, 2}

\* the bytes of a body
Bytes == {1, 2}

\* every byte string of length n
BytesOfLen(n) == [1..n -> Bytes]

\* the servers: one answers with a chain of redirects (an endless one, or
\* one of at most MaxChain) and then with a status; with 200 it announces
\* Content-Length and sends body, which ends early when it is shorter
Servers ==
    { [chain |-> c, endless |-> e, status |-> st, content_length |-> n,
       body |-> b] :
        c \in 0..MaxChain, e \in BOOLEAN, st \in {200, 404},
        n \in 0..MaxBodyLen,
        b \in UNION { BytesOfLen(k) : k \in 0..MaxBodyLen } }

InitDownload ==
    /\ DeviceAtRest
    /\ CompareAtRest
    /\ MetadataAtRest
    /\ MergeAtRest
    /\ ObjectsAtRest
    /\ dl_server \in { sv \in Servers :
                         /\ Len(sv.body) <= sv.content_length
                         /\ sv.endless => sv.chain = 0
                         /\ sv.status = 404 => sv.content_length = 0 }
    /\ chunk_size \in ChunkSizes
    /\ store_in_memory \in BOOLEAN
    /\ dl_pc = "ready"
    /\ dl_chain = dl_server.chain
    /\ dl_stream = dl_server.body
    /\ dl_requests = 0
    /\ dl_returned = NotReturned
    /\ dl_error = NoError
    /\ redirects = 0
    /\ remaining = 0
    /\ total_size = 0
    /\ bytes_read = 0
    /\ download_started = FALSE
    /\ download_done = FALSE
    /\ hash_obj = <<>>
    /\ mem_buffer = <<>>

\* _download_file 260-265: the state of the updater is reset and the budget
\* is set to max_redirects
download_begin ==
    /\ dl_pc = "ready"
    /\ total_size' = 0
    /\ bytes_read' = 0
    /\ download_done' = FALSE
    /\ dl_error' = NoError
    /\ download_started' = FALSE
    /\ redirects' = ConfiguredMaxRedirects
    /\ dl_pc' = "request"
    /\ UNCHANGED <<dlInputs, dl_chain, dl_requests, dl_returned, remaining,
                   hash_obj, mem_buffer, dl_stream, exceptDownload>>

\* the except of _download_file (309-315): error is set, (None, None) is
\* returned
DownloadFails(kind) ==
    /\ dl_error' = Err(kind)
    /\ dl_returned' = ReturnedNone
    /\ dl_pc' = "returned"

\* _download_file 270-298 and 307, one turn of "while redirects > 0": a
\* request; a 301/302 costs one redirect of the budget and is followed
\* unless the budget is used up; any status but 200 and a firmware file
\* without Content-Length fail; with 200 _download_content is entered
\* (201-213)
download_request ==
    /\ dl_pc = "request"
    /\ IF redirects <= 0
       THEN /\ DownloadFails("too_many_redirects")
            /\ UNCHANGED <<dl_chain, dl_requests, redirects,
                           download_started, remaining, total_size,
                           bytes_read, hash_obj, mem_buffer>>
       ELSE /\ dl_requests' = dl_requests + 1
            /\ IF dl_server.endless \/ dl_chain > 0
               THEN /\ dl_chain' = (IF dl_server.endless THEN 0
                                    ELSE dl_chain - 1)
                    /\ redirects' = redirects - 1
                    /\ IF redirects - 1 = 0
                       THEN DownloadFails("too_many_redirects")
                       ELSE UNCHANGED <<dl_error, dl_returned, dl_pc>>
                    /\ UNCHANGED <<download_started, remaining, total_size,
                                   bytes_read, hash_obj, mem_buffer>>
               ELSE IF dl_server.status # 200
               THEN /\ DownloadFails("unexpected_response")
                    /\ UNCHANGED <<dl_chain, redirects, download_started,
                                   remaining, total_size, bytes_read,
                                   hash_obj, mem_buffer>>
               ELSE IF dl_server.content_length = 0 /\ ~store_in_memory
               THEN /\ DownloadFails("empty_content_length")
                    /\ UNCHANGED <<dl_chain, redirects, download_started,
                                   remaining, total_size, bytes_read,
                                   hash_obj, mem_buffer>>
               ELSE /\ download_started' = TRUE
                    /\ hash_obj' = <<>>
                    /\ mem_buffer' = <<>>
                    /\ total_size' = dl_server.content_length
                    /\ bytes_read' = 0
                    /\ remaining' = dl_server.content_length
                    /\ dl_pc' = "content"
                    /\ UNCHANGED <<dl_chain, redirects, dl_error,
                                   dl_returned>>
    /\ UNCHANGED <<dlInputs, dl_stream, download_done, exceptDownload>>

\* the smaller of two numbers
Min(a, b) == IF a < b THEN a ELSE b

\* _download_content 215-226, one turn of "while remaining > 0":
\* reader.read(min(chunk_size, remaining)) returns at least one byte and at
\* most that many, or nothing when the stream has ended, which ends the loop
download_read ==
    /\ dl_pc = "content"
    /\ remaining > 0
    /\ IF dl_stream = <<>>
       THEN /\ dl_pc' = "content_end"
            /\ UNCHANGED dlTransfer
       ELSE \E n \in 1..Min(Min(chunk_size, remaining), Len(dl_stream)) :
              LET chunk == SubSeq(dl_stream, 1, n) IN
              /\ hash_obj' = hash_obj \o chunk
              /\ mem_buffer' = mem_buffer \o chunk
              /\ bytes_read' = bytes_read + Len(chunk)
              /\ remaining' = remaining - Len(chunk)
              /\ dl_stream' = SubSeq(dl_stream, n + 1, Len(dl_stream))
              /\ UNCHANGED <<dl_pc, total_size>>
    /\ UNCHANGED <<dlInputs, dl_chain, dl_requests, dl_returned, dl_error,
                   redirects, download_started, download_done,
                   exceptDownload>>

\* the digest of a response without content (_download_content 250)
NoContentHash == [sha |-> <<0>>]

\* _download_content 240-256 and _download_file 300-305: after the loop the
\* digest is computed, download_done is set and the result returned
download_finish ==
    /\ \/ dl_pc = "content" /\ remaining = 0
       \/ dl_pc = "content_end"
    /\ download_done' = TRUE
    /\ dl_returned' = ReturnedResult(IF total_size > 0 THEN Sha256(hash_obj)
                                     ELSE NoContentHash)
    /\ dl_pc' = "returned"
    /\ UNCHANGED <<dlInputs, dl_chain, dl_requests, dl_error, redirects,
                   download_started, dlTransfer, exceptDownload>>

NextDownload ==
    \/ download_begin
    \/ download_request
    \/ download_read
    \/ download_finish

SpecDownload == InitDownload /\ [][NextDownload]_vars

\* ---------------------------------- FirmwareUpdater.download_update alone
\* the latest_release arguments download_update may be called with: None, a
\* list, the empty dict, release objects
ReleaseArguments ==
    { d \in MetadataDocuments : d.kind # "not_json" } \cup {NoDocument}

\* "not latest_release or not isinstance(latest_release, dict)"
InvalidRelease(release) == release.kind # "object" \/ release.empty

\* an updater that download_update(latest_release) is about to be called
\* on; pending_update_version is None (71) or what an earlier call left
\* behind; returned is "none" until the call is over, then "True", "False"
\* or "raised"
InitDownloadUpdate ==
    /\ DeviceAtRest
    /\ FunctionsAtRest
    /\ ExtractionAtRest
    /\ VerificationAtRest
    /\ SingletonAtRest
    /\ TaskManagerAtRest
    /\ SharedAtRest
    /\ EventLoopAtRest
    /\ ProgressAtRest
    /\ updater \in
         [pc : {"download_update"},
          latest_release : ReleaseArguments,
          pending_update_version : {NoVersion, VersionString(1, 0, 0)},
          error : {NoError, Err("download")},
          returned : {"none"}]

\* download_update 525-538: error is cleared; release data that is no
\* non-empty dict is refused with False; else pending_update_version is set
\* to the tag of the release without its "v"
download_update_prepare ==
    /\ updater.pc = "download_update"
    /\ IF InvalidRelease(updater.latest_release)
       THEN updater' = [updater EXCEPT !.error = Err("invalid_release"),
                                       !.returned = "False",
                                       !.pc = "returned"]
       ELSE updater' = [updater EXCEPT
                          !.error = NoError,
                          !.pending_update_version =
                              StripV(TagOrDefault(updater.latest_release)),
                          !.pc = "get_firmware_url"]
    /\ UNCHANGED <<device, functionUnits, extraction, verification, singleton,
                   task_manager, shared,
                   event_loop, progress>>

\* download_update 541-545 with _get_firmware_url 559-568: without an asset
\* whose name ends in ".tar.zlib" the pending version is cleared and False
\* returned
download_update_find_asset ==
    /\ updater.pc = "get_firmware_url"
    /\ IF MatchingAssets(updater.latest_release) = <<>>
       THEN updater' = [updater EXCEPT !.error = Err("no_firmware_asset"),
                                       !.pending_update_version = NoVersion,
                                       !.returned = "False",
                                       !.pc = "returned"]
       ELSE updater' = [updater EXCEPT !.pc = "download_firmware"]
    /\ UNCHANGED <<device, functionUnits, extraction, verification, singleton,
                   task_manager, shared,
                   event_loop, progress>>

\* download_update 549: self._download_firmware(firmware_url,
\* firmware_filename) passes two arguments to a method that takes one
\* (441: "_download_firmware(self, firmware_url)"); the call raises
\* TypeError before the method runs, download_update has no handler, and
\* 550-557 are not reached
download_update_download ==
    /\ updater.pc = "download_firmware"
    /\ updater' = [updater EXCEPT !.returned = "raised", !.pc = "returned"]
    /\ UNCHANGED <<device, functionUnits, extraction, verification, singleton,
                   task_manager, shared,
                   event_loop, progress>>

NextDownloadUpdate ==
    \/ download_update_prepare
    \/ download_update_find_asset
    \/ download_update_download

SpecDownloadUpdate == InitDownloadUpdate /\ [][NextDownloadUpdate]_vars

\* ------------------------------------------------ _extract_firmware alone
\* "/" in the name of a tar entry
Slash == 13

\* the names of tar entries: the strings of "/", "." and a letter
EntryNames ==
    UNION { [1..n -> {Slash, Dot, Letter}] : n \in 1..MaxNameLen }

\* "'..' in file_name"
HasDotDot(name) ==
    \E i \in 1..(Len(name) - 1) : name[i] = Dot /\ name[i + 1] = Dot

\* the guard of 684 left out
UnsafeName_Never(name) == FALSE

\* _process_tar_entry 684: file_name.startswith('/') or '..' in file_name or
\* file_name.startswith('.')
UnsafeName(name) ==
    \/ name[1] = Slash
    \/ HasDotDot(name)
    \/ name[1] = Dot

\* str.split("/")
RECURSIVE SplitPath(_)
SplitPath(str) ==
    IF \A i \in 1..Len(str) : str[i] # Slash
    THEN <<str>>
    ELSE LET cut == CHOOSE i \in 1..Len(str) :
                      str[i] = Slash /\ \A j \in 1..(i - 1) : str[j] # Slash
         IN  <<SubSeq(str, 1, cut - 1)>>
                \o SplitPath(SubSeq(str, cut + 1, Len(str)))

\* a place on the flash is the sequence of directory names that leads to it
\* from the root; extract_to_dir is "/update"
StagingDir == <<<<Letter, Letter>>>>

\* the place under the staging directory or the staging directory itself
InStaging(place) == Len(place) >= 1 /\ place[1] = StagingDir[1]

\* the place one component of a path leads to: "" and "." stay, ".." goes
\* to the parent (the root is its own parent)
StepInto(place, part) ==
    IF part = <<>> \/ part = <<Dot>> THEN place
    ELSE IF part = <<Dot, Dot>>
    THEN (IF place = <<>> THEN place ELSE SubSeq(place, 1, Len(place) - 1))
    ELSE Append(place, part)

\* the place a whole path leads to
RECURSIVE Resolve(_, _)
Resolve(place, parts) ==
    IF parts = <<>> THEN place
    ELSE Resolve(StepInto(place, Head(parts)), Tail(parts))

\* a file is at the place
IsFile(place, files) == \E f \in files : f.place = place

\* FirmwareUpdater._mkdirs (571-585): uos.mkdir for each prefix of the path
\* in turn; EEXIST is ignored, whatever is at the place; any other OSError
\* (the parent is no directory) is raised
RECURSIVE _mkdirs(_, _, _, _)
_mkdirs(parts, place, dirs, files) ==
    IF parts = <<>> THEN [raised |-> FALSE, dirs |-> dirs]
    ELSE IF Head(parts) = <<>> THEN _mkdirs(Tail(parts), place, dirs, files)
    ELSE LET next == StepInto(place, Head(parts)) IN
         IF next \in dirs \/ IsFile(next, files)
         THEN _mkdirs(Tail(parts), next, dirs, files)
         ELSE IF place \notin dirs
         THEN [raised |-> TRUE, dirs |-> dirs]
         ELSE _mkdirs(Tail(parts), next, dirs \cup {next}, files)

\* _process_tar_entry 688-753 for an entry that passed the guard: a name
\* that ends in "/" is a directory (utarfile 91-92) and is created with its
\* parents; a file has its parent directories created and is written with
\* the data of the entry; an exception makes it an error (750-753)
ExtractEntry(entry, dirs, files) ==
    LET parts == StagingDir \o SplitPath(entry.name)
        place == Resolve(<<>>, parts)
    IN  IF entry.name[Len(entry.name)] = Slash
        THEN LET made == _mkdirs(parts, <<>>, dirs, files) IN
             [verdict |-> IF made.raised THEN "error" ELSE "processed",
              dirs |-> made.dirs, files |-> files]
        ELSE LET made == _mkdirs(SubSeq(parts, 1, Len(parts) - 1), <<>>,
                                 dirs, files)
                 parent == SubSeq(place, 1, Len(place) - 1)
             IN  IF made.raised \/ place \in made.dirs \/ place = <<>>
                    \/ parent \notin made.dirs
                 THEN [verdict |-> "error", dirs |-> made.dirs,
                       files |-> files]
                 ELSE [verdict |-> "processed", dirs |-> made.dirs,
                       files |-> { f \in files : f.place # place }
                                    \cup {[place |-> place,
                                           data |-> entry.data]}]

\* the tar files: two entries, the first with the data <<1>>, the second
\* with the data <<2>>
TarFiles ==
    { <<[name |-> n1, data |-> <<1>>], [name |-> n2, data |-> <<2>>]>> :
        n1 \in EntryNames, n2 \in EntryNames }

\* _extract_firmware 759-774: the staging directory is made, the tar file
\* opened, nothing processed yet; log keeps what became of each entry
InitExtract ==
    /\ DeviceAtRest
    /\ FunctionsAtRest
    /\ UpdaterAtRest
    /\ VerificationAtRest
    /\ SingletonAtRest
    /\ TaskManagerAtRest
    /\ SharedAtRest
    /\ EventLoopAtRest
    /\ ProgressAtRest
    /\ extraction \in
         [pc : {"entries"},
          tar : TarFiles,
          dirs : {{<<>>, StagingDir}},
          files : {{}},
          processed_count : {0},
          error_count : {0},
          log : {<<>>},
          returned : {"none"}]

\* _extract_firmware 776-782 with _process_tar_entry 672-753 and
\* TarFile.next (utarfile 66-99, which skips what was not read of the entry
\* before): the next entry is skipped when its name is unsafe, and is
\* extracted else
process_entry ==
    /\ extraction.pc = "entries"
    /\ Len(extraction.log) < Len(extraction.tar)
    /\ LET entry == extraction.tar[Len(extraction.log) + 1] IN
       IF UnsafeName(entry.name)
       THEN extraction' = [extraction EXCEPT
                             !.log = Append(extraction.log, "skipped")]
       ELSE LET out == ExtractEntry(entry, extraction.dirs,
                                    extraction.files)
            IN  extraction' =
                   [extraction EXCEPT
                      !.log = Append(extraction.log, out.verdict),
                      !.dirs = out.dirs,
                      !.files = out.files,
                      !.processed_count =
                          IF out.verdict = "processed"
                          THEN extraction.processed_count + 1
                          ELSE extraction.processed_count,
                      !.error_count =
                          IF out.verdict = "error"
                          THEN extraction.error_count + 1
                          ELSE extraction.error_count]
    /\ UNCHANGED <<device, functionUnits, updater, verification, singleton,
                   task_manager, shared,
                   event_loop, progress>>

\* _extract_firmware 791-805: errors or no processed entry fail the
\* extraction
extract_finish ==
    /\ extraction.pc = "entries"
    /\ Len(extraction.log) = Len(extraction.tar)
    /\ extraction' =
          [extraction EXCEPT
             !.pc = "returned",
             !.returned = IF extraction.error_count > 0
                             \/ extraction.processed_count = 0
                          THEN "False" ELSE "True"]
    /\ UNCHANGED <<device, functionUnits, updater, verification, singleton,
                   task_manager, shared,
                   event_loop, progress>>

NextExtract ==
    \/ process_entry
    \/ extract_finish

SpecExtract == InitExtract /\ [][NextExtract]_vars

\* --------------------------------- the digest check of _process_tar_entry
\* the characters of a digest in the manifest: the digit "1" is 1, the
\* lowercase letters "a" and "b" are 20 and 21, the uppercase letters "A"
\* and "B" are 30 and 31
LowerHex == {20, 21}

UpperHex == {30, 31}

HexChars == {1} \cup LowerHex \cup UpperHex

\* the half-bytes of hash_obj.digest()
HalfBytes == {1, 10, 11}

\* binascii.hexlify(...).decode(): the digits and the lowercase letters
hexlify(digest) ==
    [i \in 1..Len(digest) |->
        IF digest[i] < 10 THEN digest[i] ELSE 20 + (digest[i] - 10)]

\* the string with its uppercase letters made lowercase
LowerCase(str) ==
    [i \in 1..Len(str) |-> IF str[i] \in UpperHex THEN str[i] - 10 ELSE str[i]]

\* _process_tar_entry 727-745 behind "if file_name in self.hash_sums": the
\* file is accepted when computed_hash != expected_hash is false
HashAccepted(computed_hash, expected_hash) == ~(computed_hash # expected_hash)

\* a file has been written, its digest is in hash_obj and the manifest has
\* a digest for its name
InitVerify ==
    /\ DeviceAtRest
    /\ FunctionsAtRest
    /\ UpdaterAtRest
    /\ ExtractionAtRest
    /\ SingletonAtRest
    /\ TaskManagerAtRest
    /\ SharedAtRest
    /\ EventLoopAtRest
    /\ ProgressAtRest
    /\ verification \in
         [pc : {"written"},
          digest : [1..DigestLen -> HalfBytes],
          expected_hash : [1..DigestLen -> HexChars],
          error : {NoError},
          returned : {"none"}]

\* _process_tar_entry 727-745: (True, True) with a "Hash mismatch" error
\* when the digests differ, (True, False) else
verify_hash ==
    /\ verification.pc = "written"
    /\ LET computed_hash == hexlify(verification.digest) IN
       verification' =
          IF HashAccepted(computed_hash, verification.expected_hash)
          THEN [verification EXCEPT !.pc = "returned",
                                    !.returned = "processed"]
          ELSE [verification EXCEPT !.pc = "returned",
                                    !.returned = "processed_with_error",
                                    !.error = Err("hash_mismatch")]
    /\ UNCHANGED <<device, functionUnits, updater, extraction, singleton,
                   task_manager, shared,
                   event_loop, progress>>

NextVerify ==
    \/ verify_hash

SpecVerify == InitVerify /\ [][NextVerify]_vars

\* ------------------------------------------- FirmwareUpdater, the singleton
\* "_instance = None"; the objects are numbered from 1 as they are created
NoObject == 0

\* an object fresh from object.__new__: no attribute of its own, and
\* _initialized read from the class, where it is False
BareObject ==
    [_initialized |-> FALSE, device_model |-> "unset",
     github_repo |-> "unset", direct_base_url |-> "unset",
     progress_callback |-> "unset"]

\* the arguments of FirmwareUpdater(...); "None" is an argument left out
ConstructorArguments ==
    [device_model : {"None", "esp32"},
     github_repo : {"None", "org/a", "org/b"},
     direct_base_url : {"None", "http://h", "http://h/"},
     progress_callback : {"None", "cb1", "cb2"}]

NoArguments ==
    [device_model |-> "None", github_repo |-> "None",
     direct_base_url |-> "None", progress_callback |-> "None"]

\* __init__ 51-52: a "/" is put at the end of a direct_base_url without
EndWithSlash(url) == IF url = "http://h" THEN "http://h/" ELSE url

\* __init__ 28 with the test left out
AlreadyInitialized_Never(obj) == FALSE

\* __init__ 28: "if self._initialized"
AlreadyInitialized(obj) == obj._initialized

\* __init__ 26-79 on the object: what the object is afterwards, and whether
\* ValueError was raised
__init__(obj, args) ==
    IF AlreadyInitialized(obj)
    THEN [raised |-> FALSE,
          obj |-> IF args.progress_callback # "None"
                  THEN [obj EXCEPT
                          !.progress_callback = args.progress_callback]
                  ELSE obj]
    ELSE IF args.device_model = "None"
    THEN [raised |-> TRUE, obj |-> obj]
    ELSE LET stored == [obj EXCEPT
                          !.device_model = args.device_model,
                          !.direct_base_url = args.direct_base_url,
                          !.github_repo = args.github_repo,
                          !.progress_callback = args.progress_callback]
         IN  IF args.direct_base_url # "None"
             THEN [raised |-> FALSE,
                   obj |-> [stored EXCEPT
                              !.direct_base_url =
                                  EndWithSlash(args.direct_base_url),
                              !._initialized = TRUE]]
             ELSE IF args.github_repo = "None"
             THEN [raised |-> TRUE, obj |-> stored]
             ELSE [raised |-> FALSE,
                   obj |-> [stored EXCEPT !._initialized = TRUE]]

\* the class as it is defined (16-19): no instance, no object created; last
\* is the last call, its arguments and what it returned
InitSingleton ==
    /\ DeviceAtRest
    /\ FunctionsAtRest
    /\ UpdaterAtRest
    /\ ExtractionAtRest
    /\ VerificationAtRest
    /\ TaskManagerAtRest
    /\ SharedAtRest
    /\ EventLoopAtRest
    /\ ProgressAtRest
    /\ singleton =
         [pc |-> "class", _instance |-> NoObject, obj |-> BareObject,
          created |-> 0,
          last |-> [op |-> "none", args |-> NoArguments, raised |-> FALSE,
                    returned |-> NoObject]]

\* FirmwareUpdater(...): __new__ (21-24) makes an object and keeps it in
\* _instance when there is none, then __init__ (26-79) runs on _instance
construct ==
    /\ singleton.pc = "class"
    /\ singleton._instance # NoObject \/ singleton.created < MaxObjects
    /\ \E args \in ConstructorArguments :
         LET made == singleton._instance = NoObject
             instance == IF made THEN singleton.created + 1
                         ELSE singleton._instance
             init == __init__(IF made THEN BareObject ELSE singleton.obj,
                              args)
         IN  singleton' =
                [singleton EXCEPT
                   !._instance = instance,
                   !.created = IF made THEN singleton.created + 1
                               ELSE singleton.created,
                   !.obj = init.obj,
                   !.last = [op |-> "construct", args |-> args,
                             raised |-> init.raised,
                             returned |-> IF init.raised THEN NoObject
                                          ELSE instance]]
    /\ UNCHANGED <<device, functionUnits, updater, extraction, verification,
                   task_manager, shared,
                   event_loop, progress>>

\* get_instance 81-84
get_instance ==
    /\ singleton.pc = "class"
    /\ singleton' =
          [singleton EXCEPT
             !.last = [op |-> "get_instance", args |-> NoArguments,
                       raised |-> FALSE,
                       returned |-> singleton._instance]]
    /\ UNCHANGED <<device, functionUnits, updater, extraction, verification,
                   task_manager, shared,
                   event_loop, progress>>

\* reset_instance 86-90: the class forgets the object
reset_instance ==
    /\ singleton.pc = "class"
    /\ singleton' =
          [singleton EXCEPT
             !._instance = NoObject,
             !.obj = BareObject,
             !.last = [op |-> "reset_instance", args |-> NoArguments,
                       raised |-> FALSE, returned |-> NoObject]]
    /\ UNCHANGED <<device, functionUnits, updater, extraction, verification,
                   task_manager, shared,
                   event_loop, progress>>

NextSingleton ==
    \/ construct
    \/ get_instance
    \/ reset_instance

SpecSingleton == InitSingleton /\ [][NextSingleton]_vars

\* ------------------------------------------------------------ TaskManager
TASK_ONESHOT == 0

TASK_PERIODIC == 1

\* the task ids that callers give; each call below is made with a task_id
TaskIds == {"t1", "t2"}

\* dict[key] = value
Put(dict, key, value) ==
    [x \in DOMAIN dict \cup {key} |-> IF x = key THEN value ELSE dict[x]]

\* del dict[key]
Del(dict, key) == [x \in DOMAIN dict \ {key} |-> dict[x]]

\* the coroutine of a task: there is none, or it is where it waits, or it
\* is done
PeriodicLive == {"loop_scheduled", "loop", "sleeping"}

\* _notify_event 384-399 with the listener of the manager, which logs: the
\* last event of the task is kept
_notify_event(tm, task_id, event_type) ==
    [tm EXCEPT !.events[task_id] = event_type]

\* "if task_id in self._tasks: del ...; if task_id in self._task_info: del"
CleanUp(tm, task_id) ==
    [tm EXCEPT !._tasks = tm._tasks \ {task_id},
               !._task_info = Del(tm._task_info, task_id)]

\* TaskManager.__init__ 28-33: no task
InitTasks ==
    /\ DeviceAtRest
    /\ FunctionsAtRest
    /\ UpdaterAtRest
    /\ ExtractionAtRest
    /\ VerificationAtRest
    /\ SingletonAtRest
    /\ SharedAtRest
    /\ EventLoopAtRest
    /\ ProgressAtRest
    /\ task_manager =
         [pc |-> "manager",
          _tasks |-> {},
          _task_info |-> <<>>,
          coro |-> [t \in TaskIds |-> "none"],
          events |-> [t \in TaskIds |-> "none"],
          calls |-> [t \in TaskIds |-> "none"],
          last |-> [op |-> "none", task_id |-> "none"]]

\* the rest of the model does not move
TasksFrame ==
    UNCHANGED <<device, functionUnits, updater, extraction, verification,
                singleton, shared, event_loop, progress>>

\* create_task 35-117 for an id that is free: the wrapper is scheduled,
\* the task and its metadata are stored
create_task ==
    /\ task_manager.pc = "manager"
    /\ \E task_id \in TaskIds :
         /\ task_id \notin task_manager._tasks
         /\ task_manager.coro[task_id] \in {"none", "done"}
         /\ task_manager' =
               [task_manager EXCEPT
                  !._tasks = task_manager._tasks \cup {task_id},
                  !._task_info =
                      Put(task_manager._task_info, task_id,
                          [type |-> TASK_ONESHOT, running |-> TRUE]),
                  !.coro[task_id] = "scheduled",
                  !.last = [op |-> "create_task", task_id |-> task_id]]
    /\ TasksFrame

\* create_periodic_task 138-250: the wrapper is scheduled, the task and its
\* metadata are stored
CreatePeriodic(tm, task_id) ==
    [tm EXCEPT
       !._tasks = tm._tasks \cup {task_id},
       !._task_info = Put(tm._task_info, task_id,
                          [type |-> TASK_PERIODIC, running |-> TRUE]),
       !.coro[task_id] = "loop_scheduled"]

\* create_periodic_task for an id that is free
create_periodic_task ==
    /\ task_manager.pc = "manager"
    /\ \E task_id \in TaskIds :
         /\ task_id \notin task_manager._tasks
         /\ task_manager.coro[task_id] \in {"none", "done"}
         /\ task_manager' =
               [CreatePeriodic(task_manager, task_id) EXCEPT
                  !.last = [op |-> "create_periodic_task",
                            task_id |-> task_id]]
    /\ TasksFrame

\* ensure_periodic_task 252-285
ensure_periodic_task ==
    /\ task_manager.pc = "manager"
    /\ \E task_id \in TaskIds :
         LET tm == [task_manager EXCEPT
                      !.last = [op |-> "ensure_periodic_task",
                                task_id |-> task_id]]
         IN  IF task_id \in DOMAIN tm._task_info /\ task_id \in tm._tasks
             THEN LET task_info == tm._task_info[task_id] IN
                  IF ~task_info.running /\ task_info.type = TASK_PERIODIC
                  THEN task_manager' =
                          [tm EXCEPT !._task_info[task_id].running = TRUE]
                  ELSE IF task_info.running
                  THEN task_manager' = tm
                  ELSE task_manager' = CreatePeriodic(tm, task_id)
             ELSE task_manager' = CreatePeriodic(tm, task_id)
    /\ TasksFrame

\* stop_task 287-309: the running flag of a periodic task is cleared, a
\* one-shot task is cancelled (task.cancel() on a task that is done does
\* nothing)
StopTask(tm, task_id) ==
    IF task_id \notin tm._tasks \/ task_id \notin DOMAIN tm._task_info
    THEN tm
    ELSE IF tm._task_info[task_id].type = TASK_PERIODIC
    THEN [tm EXCEPT !._task_info[task_id].running = FALSE]
    ELSE [tm EXCEPT !.coro[task_id] =
            IF tm.coro[task_id] = "scheduled" THEN "cancelled_unstarted"
            ELSE IF tm.coro[task_id] = "awaiting" THEN "cancelling"
            ELSE tm.coro[task_id]]

stop_task ==
    /\ task_manager.pc = "manager"
    /\ \E task_id \in TaskIds :
         task_manager' =
            [StopTask(task_manager, task_id) EXCEPT
               !.last = [op |-> "stop_task", task_id |-> task_id]]
    /\ TasksFrame

\* restart_task 311-330
restart_task ==
    /\ task_manager.pc = "manager"
    /\ \E task_id \in TaskIds :
         LET tm == [task_manager EXCEPT
                      !.last = [op |-> "restart_task", task_id |-> task_id]]
         IN  IF /\ task_id \in DOMAIN tm._task_info
                /\ tm._task_info[task_id].type = TASK_PERIODIC
                /\ task_id \in tm._tasks
                /\ ~tm._task_info[task_id].running
             THEN task_manager' =
                     [tm EXCEPT !._task_info[task_id].running = TRUE]
             ELSE task_manager' = tm
    /\ TasksFrame

\* cancel_all_tasks 332-335: stop_task for every key of _tasks
RECURSIVE StopAll(_, _)
StopAll(tm, keys) ==
    IF keys = {} THEN tm
    ELSE LET task_id == CHOOSE t \in keys : TRUE
         IN  StopAll(StopTask(tm, task_id), keys \ {task_id})

cancel_all_tasks ==
    /\ task_manager.pc = "manager"
    /\ task_manager' =
          [StopAll(task_manager, task_manager._tasks) EXCEPT
             !.last = [op |-> "cancel_all_tasks", task_id |-> "none"]]
    /\ TasksFrame

\* is_task_running 337-345
is_task_running(tm, task_id) ==
    /\ task_id \in DOMAIN tm._task_info
    /\ task_id \in tm._tasks
    /\ tm._task_info[task_id].running

\* task_wrapper 51-103, a step of the coroutine of a one-shot task: it
\* starts and awaits coro; coro returns (64-77) or raises (87-103), and
\* the task is cleaned up; a cancellation is delivered (79-85), to a
\* wrapper that had not started without any of its code being run
task_wrapper(task_id) ==
    /\ task_manager.pc = "manager"
    /\ \/ /\ task_manager.coro[task_id] = "scheduled"
          /\ task_manager' =
                [_notify_event(task_manager, task_id, "TASK_STARTED") EXCEPT
                   !.coro[task_id] = "awaiting"]
       \/ /\ task_manager.coro[task_id] = "awaiting"
          /\ \E event_type \in {"TASK_COMPLETED", "TASK_FAILED"} :
               task_manager' =
                  [CleanUp(_notify_event(task_manager, task_id, event_type),
                           task_id)
                     EXCEPT !.coro[task_id] = "done"]
       \/ /\ task_manager.coro[task_id] = "cancelling"
          /\ task_manager' =
                [_notify_event(task_manager, task_id, "TASK_STOPPED") EXCEPT
                   !.coro[task_id] = "done"]
       \/ /\ task_manager.coro[task_id] = "cancelled_unstarted"
          /\ task_manager' = [task_manager EXCEPT !.coro[task_id] = "done"]
    /\ TasksFrame

\* the exception of update_func taken by the outer handler (221-235)
\* instead: the task is cleaned up and its coroutine ends
AfterUpdateRaised_Unhandled(tm, task_id) ==
    [CleanUp(_notify_event(tm, task_id, "TASK_FAILED"), task_id) EXCEPT
       !.coro[task_id] = "done"]

\* periodic_wrapper 185-200 when update_func raised: TASK_FAILED is
\* notified and the wrapper sleeps for the interval
AfterUpdateRaised(tm, task_id) ==
    [_notify_event(tm, task_id, "TASK_FAILED") EXCEPT
       !.coro[task_id] = "sleeping"]

\* periodic_wrapper 171-210, a step of the coroutine of a periodic task: it
\* starts; while running is set it calls update_func, which returns or
\* raises, and sleeps; when running is clear it notifies TASK_STOPPED and
\* ends, and the task stays in _tasks and _task_info
periodic_wrapper(task_id) ==
    /\ task_manager.pc = "manager"
    /\ \/ /\ task_manager.coro[task_id] = "loop_scheduled"
          /\ task_manager' =
                [_notify_event(task_manager, task_id, "TASK_STARTED") EXCEPT
                   !.coro[task_id] = "loop"]
       \/ /\ task_manager.coro[task_id] = "loop"
          /\ IF task_manager._task_info[task_id].running
             THEN \E raised \in BOOLEAN :
                    LET called == [task_manager EXCEPT
                                     !.calls[task_id] =
                                         IF raised THEN "raised"
                                         ELSE "returned"]
                    IN  task_manager' =
                           IF raised THEN AfterUpdateRaised(called, task_id)
                           ELSE [called EXCEPT !.coro[task_id] = "sleeping"]
             ELSE task_manager' =
                     [_notify_event(task_manager, task_id, "TASK_STOPPED")
                        EXCEPT !.coro[task_id] = "done"]
       \/ /\ task_manager.coro[task_id] = "sleeping"
          /\ task_manager' = [task_manager EXCEPT !.coro[task_id] = "loop"]
    /\ TasksFrame

NextTasks ==
    \/ create_task
    \/ create_periodic_task
    \/ ensure_periodic_task
    \/ stop_task
    \/ restart_task
    \/ cancel_all_tasks
    \/ \E task_id \in TaskIds : task_wrapper(task_id)
    \/ \E task_id \in TaskIds : periodic_wrapper(task_id)

SpecTasks == InitTasks /\ [][NextTasks]_vars

\* the event loop runs every coroutine that can run, and a sleep ends
SpecTasksLive ==
    /\ SpecTasks
    /\ \A task_id \in TaskIds : WF_vars(periodic_wrapper(task_id))

\* ---------------------------------------------------------- statements
\* positions inside apply_update, after its entry has recorded preRoot
ApplyPcs ==
    {"ap_decompress", "ap_extract", "ap_entry", "ap_backup",
     "ap_backup_item", "ap_mark", "ap_merge", "ap_merge_done", "ap_version",
     "ap_cleanup", "ap_rm_applying", "ap_rm_update", "ap_fail_cleanup",
     "ap_fail_cleanup_tar", "ap_return"}

InApply ==
    \/ pc \in ApplyPcs
    \/ pc \in RollbackPcs /\ ret = "apply"

AllStages == {"decompress", "extract", "core", "backup"}

\* the payload files of an archive whose bytes do not have the digest the
\* manifest of the archive gives for them
DigestMismatches(a) ==
    {n \in PayloadNames :
        /\ a.manifest
        /\ a.files[n] # NoFile
        /\ a.digests[n] # NoDigest
        /\ a.digests[n] # Sha256(a.files[n])}

\* the extraction loop of this apply_update has run over every tar entry
ExtractionOver ==
    /\ InApply
    /\ pc \notin {"ap_decompress", "ap_extract"}
    /\ ~(pc = "ap_entry" /\ idx <= Len(ListOrder))

\* the positions of a boot in which an update attempt is under way
StartedPcs == {"bt_write_open", "bt_write", "bt_after_check", "bt_post"}

AttemptStarted == InAttempt \/ pc \in StartedPcs

C2_RootGated ==
    InApply =>
        /\ root # preRoot => stages_passed = AllStages
        /\ ("decompress" \in stages_passed /\ archive # NoArchive)
              => archive.zok
        /\ ("extract" \in stages_passed /\ archive # NoArchive)
              => DigestMismatches(archive) = {}
        /\ ("core" \in stages_passed
               /\ pc \in {"ap_backup", "ap_backup_item", "ap_mark"})
              => MissingCoreFiles(core_system_files, staging) = {}
        /\ ("backup" \in stages_passed /\ pc = "ap_mark")
              => \A n \in Names : root[n] # NoFile => backup[n] = root[n]
        /\ (pc = "ap_return" /\ stages_passed # AllStages)
              => (outcome = "apply_failed" /\ root = preRoot)

\* C2 witness: an apply_update that passed every stage has changed the root
\* and returned success
C2_Witness ==
    /\ pc = "ap_return"
    /\ outcome = "committed"
    /\ root # preRoot
    /\ stages_passed = AllStages

C5_IntegrityVerdict ==
    (InApply /\ archive # NoArchive /\ archive.zok) =>
        /\ (archive.manifest /\ archive.digests = TrueDigests(archive.files))
              => error.kind # "hash_mismatch"
        /\ (ExtractionOver /\ Cardinality(DigestMismatches(archive)) = 1)
              => /\ error.kind = "hash_mismatch"
                 /\ {error.path} = DigestMismatches(archive)
                 /\ pc \in {"ap_entry", "ap_fail_cleanup", "ap_return"}
                 /\ pc = "ap_return" => outcome = "apply_failed"
                 /\ root = preRoot

\* C5 witness: apply_update has returned failure for an archive with one
\* file that contradicts its digest, the error names it
C5_Witness ==
    /\ pc = "ap_return"
    /\ outcome = "apply_failed"
    /\ archive # NoArchive
    /\ Cardinality(DigestMismatches(archive)) = 1
    /\ error.kind = "hash_mismatch"
    /\ root = preRoot

\* C6 as stated: the budget test uses the configured max_failure_attempts:
\* no attempt starts with a counter that has reached it, and the budget is
\* declared exhausted exactly at it
C6_ThresholdIsConfigured ==
    /\ AttemptStarted => failure_counter < max_failure_attempts
    /\ outcome = "exhausted" => failure_counter = max_failure_attempts

\* C7 as stated: while UPDATE_ON_BOOT is disabled in the configuration no
\* boot starts an update attempt
C7_DisabledStaysDisabled ==
    ~cfg_update_on_boot => ~AttemptStarted

\* C8: during an attempt, from the network bring-up to the removal of the
\* update flag, /__updating holds the counter read at boot plus one; a run
\* that died there is found by the next boot with that value in the flag;
\* and a boot that could not write the counter has returned without attempt
C8_CounterPersistedFirst ==
    /\ InAttempt => update_flag = failure_counter + 1
    /\ (pc = "bt_start" /\ diedExpect > 0) => update_flag = diedExpect
    /\ outcome = "not_started" => pc = "idle"

\* C8 witness: the second attempt was interrupted and the next boot finds
\* the counter 2
C8_Witness ==
    /\ pc = "bt_start"
    /\ diedExpect = 2
    /\ update_flag = 2

\* C9 as stated: an attempt that ended in a failure has left the
\* incremented counter in /__updating, and an attempt after which the flag
\* is gone has ended in a commit or in a confirmed up-to-date comparison
C9_FlagKeptOnFailure ==
    /\ outcome \in {"network_failed", "init_failed", "check_failed",
                    "version_error", "download_failed", "apply_failed"}
          => update_flag = failure_counter + 1
    /\ (pc = "idle" /\ update_flag = FlagAbsent
           /\ outcome \notin {"none", "exhausted", "not_started"})
          => outcome \in {"committed", "up_to_date"}

\* C10 as stated: after a failed merge the run never is in
\* restore_from_backup and /__applying stays in place
C10_NoInlineRollback ==
    merge_failed => (pc \notin RollbackPcs /\ applying_flag)

\* restore_from_backup has returned to its caller, which has not acted yet
RestoreReturned ==
    \/ pc = "bt_rm_applying" /\ ret = "boot"
    \/ pc = "ap_fail_cleanup" /\ ret = "apply"

\* C11 as stated: whenever restore_from_backup has returned, on whatever
\* outcome, /__applying is gone
C11_RestoreRemovesFlag == RestoreReturned => ~applying_flag

\* the commit of apply_update has dealt with the version file: it holds the
\* version that check_update reported, or its write has failed and the
\* failure is recorded in error
VersionFileHandled ==
    \/ root["version.txt"] = latest
    \/ error = Err("version_file")

\* the merge of this run is complete: it has not failed, every stage before
\* it has passed, and the emptied staging directory is removed
MergeCompleted ==
    /\ ~merge_failed
    /\ stages_passed = AllStages
    /\ staging = EmptyDir
    /\ ~staging_exists

\* apply_update has returned True
ApplySucceeded == pc = "ap_return" /\ outcome = "committed"

C15_UpToDateIdempotent ==
    /\ outcome = "up_to_date" =>
          /\ root = preRoot
          /\ bootBackup = [exists |-> backup_exists, entries |-> backup]
          /\ ~applying_flag
          /\ ~interrupted
          /\ (pc = "idle" => update_flag = FlagAbsent)
    /\ (latest # NoVersion /\ latest = _read_version(preRoot)
            /\ pc # "bt_after_check")
          => outcome = "up_to_date"

\* C15 witness: after an applied update, the second of two runs in
\* succession that were confirmed up to date has returned
C15_Witness ==
    /\ pc = "idle"
    /\ outcome = "up_to_date"
    /\ prevUpToDate
    /\ backup_exists
    /\ update_flag = FlagAbsent

\* the lexicographic order on integer triples: a is strictly greater than b
LexGreater(a, b) ==
    \E i \in 1..3 : a[i] > b[i] /\ \A j \in 1..(i - 1) : a[j] = b[j]

\* both versions handed to _compare_versions were well-formed
BothWellFormed == cmp_current.well_formed /\ cmp_latest.well_formed

\* C16: for two well-formed versions _compare_versions returns True exactly
\* when the candidate's (major, minor, patch) is strictly greater, in
\* lexicographic order on the integers, than the current one's; for an equal
\* or an older candidate it returns False; no error is set
C16_StrictlyGreaterOnly ==
    (cmp_returned # "none" /\ BothWellFormed) =>
        /\ cmp_returned =
              (IF LexGreater(cmp_latest.triple, cmp_current.triple)
               THEN "True" ELSE "False")
        /\ cmp_error = NoError

\* C16 witness: "1.10.0" has been compared against "1.9.0" and found newer
C16_Witness ==
    /\ cmp_returned = "True"
    /\ cmp_current.triple = <<1, 9, 0>>
    /\ cmp_latest.triple = <<1, 10, 0>>

\* C17 as stated: a comparison in which the installed or the candidate
\* version is malformed ends in an exception, never in a return value
C17_MalformedRaises ==
    (cmp_returned # "none" /\ ~BothWellFormed) => cmp_returned = "raised"

\* the metadata document is a JSON object with a tag_name that is not the
\* placeholder and with an asset whose name ends in the archive suffix
WellFormedRelease ==
    /\ md_document.kind = "object"
    /\ md_document.has_tag
    /\ md_document.tag_name \notin {<<>>, VersionString(0, 0, 0)}
    /\ \E i \in 1..Len(md_document.assets) :
          EndsWith(md_document.assets[i], ArchiveSuffix)

\* C18 as stated: _parse_release_metadata accepts a document, and
\* check_update reports an update as available, only if the document is a
\* JSON object with a non-placeholder tag_name and an asset whose name ends
\* in the archive suffix
C18_AcceptedHasAsset ==
    (md_parsed.state = "accepted" \/ md_available = "True")
        => WellFormedRelease

\* the merge has returned, with True or with False
MergeReturned == mg_result \in {"ok", "failed"}

\* C13 as stated: when the merge of a staging tree into a populated root has
\* returned, the root tree is, path for path and content for content, the
\* tree that the merge of check_fw_update.py produces from the same two
\* trees, and the staging directory is removed
C13_MergeEqualsReference ==
    (MergeReturned /\ mg_pre.staging # EmptyTree) =>
        /\ mg_root = ReferenceMerge(mg_pre.root, mg_pre.staging,
                                    Listdir(mg_pre.staging, <<>>))
        /\ ~mg_staging_exists
        /\ mg_staging = EmptyTree

\* C14: in every state of a merge, the states between two steps included, a
\* path that existed in root before the merge and exists in staging is in
\* root, with what root had there before or with what staging brought
C14_NoMissingPath ==
    \A q \in Paths :
        (_path_exists(mg_pre.root, q) /\ _path_exists(mg_pre.staging, q)) =>
            /\ _path_exists(mg_root, q)
            /\ mg_root[q] \in {mg_pre.root[q], mg_pre.staging[q]}

\* C14 witness: the merge is under way and has replaced an existing file of
\* root, one inside a directory that root and staging share, by the file of
\* staging
C14_Witness ==
    /\ mg_result = "running"
    /\ \E q \in TopNames \X ChildNames :
          /\ mg_pre.root[q] = FileNode(OldContent)
          /\ mg_root[q] = FileNode(NewContent)

\* _download_file has returned
DownloadReturned == dl_pc = "returned"

\* the server answers with a finite chain of redirects and then with 200 and
\* a body the call accepts
ServesBody ==
    /\ ~dl_server.endless
    /\ dl_server.status = 200
    /\ dl_server.content_length > 0 \/ store_in_memory

\* C19 as stated: when _download_file has returned, a chain of at most
\* max_redirects redirects that ended in a 200 response has not failed for
\* its redirects, a longer or an endless chain has failed with
\* too-many-redirects, and the call has made no more requests than the
\* budget allows
C19_RedirectBudget ==
    DownloadReturned =>
        /\ (ServesBody /\ dl_server.chain <= ConfiguredMaxRedirects)
              => dl_error = NoError
        /\ (dl_server.endless \/ dl_server.chain > ConfiguredMaxRedirects)
              => dl_error = Err("too_many_redirects")
        /\ dl_requests <= ConfiguredMaxRedirects + 1

\* C20 as stated: a download that has returned with download_done set has
\* read Content-Length bytes, its sink holds just the bytes read, in order,
\* and the digest returned is the digest of these bytes; a transfer that
\* ended before Content-Length bytes had arrived is not done and has
\* returned no result
C20_DoneMeansComplete ==
    DownloadReturned =>
        /\ download_done =>
              /\ bytes_read = dl_server.content_length
              /\ mem_buffer = dl_server.body
              /\ Len(mem_buffer) = dl_server.content_length
              /\ dl_returned.state = "result"
              /\ total_size > 0 => dl_returned.hash = Sha256(dl_server.body)
        /\ (download_started
               /\ Len(dl_server.body) < dl_server.content_length)
              => (~download_done /\ dl_returned.state # "result")

\* C21 as stated: a public operation of the updater that has ended has
\* returned a value; no exception has left it
C21_NoExceptionEscapes ==
    updater.pc = "returned" => updater.returned # "raised"

\* C24 as stated: pending_update_version is null while download_update is
\* on its way to the download of the archive, and null after a
\* download_update that did not return True
C24_PendingOnlyAfterDownload ==
    /\ updater.pc \in {"get_firmware_url", "download_firmware"}
          => updater.pending_update_version = NoVersion
    /\ (updater.pc = "returned" /\ updater.returned # "True")
          => updater.pending_update_version = NoVersion

\* the core-files check of this apply_update has failed
CoreCheckFailed == error.kind = "missing_core_files"

\* C22: apply_update goes on to the backup only when every file of
\* core_system_files is in the staging tree (always, when the list is
\* empty); when a file is missing it fails with an error that names a
\* missing file, before the backup, the applying flag and the merge: the
\* root is as it was and no applying flag exists; and when it has returned
\* the staging directory is gone
C22_CoreFilesGate ==
    /\ pc = "ap_backup"
          => /\ MissingCoreFiles(core_system_files, staging) = {}
             /\ "core" \in stages_passed
    /\ (pc \in {"ap_fail_cleanup", "ap_return"} /\ CoreCheckFailed)
          => /\ error.path \in core_system_files
             /\ stages_passed \cap {"core", "backup"} = {}
             /\ ~applying_flag
             /\ root = preRoot
             /\ ~merge_changed
    /\ (pc = "ap_fail_cleanup" /\ CoreCheckFailed)
          => /\ staging[error.path] = NoFile
             /\ error.path
                  \in MissingCoreFiles(core_system_files, staging)
    /\ (pc = "ap_return" /\ CoreCheckFailed)
          => /\ outcome = "apply_failed"
             /\ ~staging_exists
             /\ staging = EmptyDir

\* C22 witness: an apply_update whose archive lacked the core file has
\* returned False, and the staging directory has been removed
C22_Witness ==
    /\ pc = "ap_return"
    /\ CoreCheckFailed
    /\ error.path = "main.py"
    /\ core_system_files = {"main.py"}
    /\ outcome = "apply_failed"
    /\ ~staging_exists

\* the entries of the tar file that have been dealt with
EntriesDone == 1..Len(extraction.log)

\* C23: during extraction every directory and file on the flash is the
\* root, the staging directory or under it; an entry whose name is
\* absolute, has ".." in it or begins with "." is skipped, which is no
\* error and does not end the extraction: error_count counts the entries
\* that failed and no others, every entry is dealt with before the
\* extraction returns, and a file entry that was extracted (and not
\* written over by a later one) is in its place with its own data
C23_ExtractionStaysInStaging ==
    /\ \A d \in extraction.dirs : d = <<>> \/ InStaging(d)
    /\ \A f \in extraction.files : InStaging(f.place)
    /\ \A i \in EntriesDone :
          UnsafeName(extraction.tar[i].name) => extraction.log[i] = "skipped"
    /\ extraction.error_count
          = Cardinality({ i \in EntriesDone : extraction.log[i] = "error" })
    /\ extraction.pc = "returned"
          => Len(extraction.log) = Len(extraction.tar)
    /\ \A i \in EntriesDone :
          LET entry == extraction.tar[i]
              place == Resolve(StagingDir, SplitPath(entry.name))
          IN  (/\ extraction.log[i] = "processed"
               /\ entry.name[Len(entry.name)] # Slash
               /\ \A j \in EntriesDone :
                     (j > i /\ extraction.log[j] = "processed")
                        => Resolve(StagingDir,
                                   SplitPath(extraction.tar[j].name)) # place)
                 => [place |-> place, data |-> entry.data]
                       \in extraction.files

\* C23 witness: the extraction has returned True for a tar file whose first
\* entry is "../a", which was skipped, and whose second entry has been
\* extracted with its own data
C23_Witness ==
    /\ extraction.pc = "returned"
    /\ extraction.returned = "True"
    /\ extraction.tar[1].name = <<Dot, Dot, Slash, Letter>>
    /\ extraction.log = <<"skipped", "processed">>
    /\ extraction.error_count = 0
    /\ [place |-> Append(StagingDir, <<Letter>>), data |-> <<2>>]
          \in extraction.files

\* C30: the digest of an extracted file is accepted exactly when it is the
\* digest of the manifest up to the case of the letters
C30_DigestCaseInsensitive ==
    verification.pc = "returned"
       => ((verification.returned = "processed")
              <=> (LowerCase(hexlify(verification.digest))
                      = LowerCase(verification.expected_hash)))

\* the configuration of a FirmwareUpdater
Configuration(obj) ==
    <<obj.device_model, obj.github_repo, obj.direct_base_url>>

C26_FailedConstructionLeavesNone ==
    (/\ singleton.pc = "class"
     /\ singleton.last.op = "construct"
     /\ singleton.last.args.device_model # "None"
     /\ singleton.last.args.github_repo = "None"
     /\ singleton.last.args.direct_base_url = "None"
     /\ singleton.created = 1)
       => /\ singleton.last.raised
          /\ singleton._instance = NoObject

\* the running flag of the task is set
RunningFlag(task_id) ==
    /\ task_id \in DOMAIN task_manager._task_info
    /\ task_manager._task_info[task_id].running

\* C27: a call of the update function of a periodic task that raises
\* notifies TASK_FAILED for the task and leaves its loop asleep for the
\* interval, the task registered as before and every other task as it was;
\* the loop wakes after the interval and, awake, calls the update function
\* again unless the task has been stopped
C27_PeriodicSurvivesFailure ==
    /\ [][\A t \in TaskIds :
            (/\ task_manager.coro[t] = "loop"
             /\ RunningFlag(t)
             /\ task_manager'.coro[t] # "loop"
             /\ task_manager'.calls[t] = "raised")
               => /\ task_manager'.events[t] = "TASK_FAILED"
                  /\ task_manager'.coro[t] = "sleeping"
                  /\ task_manager'._tasks = task_manager._tasks
                  /\ task_manager'._task_info = task_manager._task_info
                  /\ \A o \in TaskIds \ {t} :
                        /\ task_manager'.coro[o] = task_manager.coro[o]
                        /\ task_manager'.events[o] = task_manager.events[o]
                        /\ task_manager'.calls[o] = task_manager.calls[o]
         ]_vars
    /\ \A t \in TaskIds :
          /\ (task_manager.coro[t] = "sleeping"
                 /\ task_manager.calls[t] = "raised")
                ~> (task_manager.coro[t] = "loop")
          /\ (task_manager.coro[t] = "loop")
                ~> (task_manager.coro[t] = "sleeping" \/ ~RunningFlag(t))

\* C27 witness: the update function of t1 has raised, TASK_FAILED was
\* notified, its loop sleeps and the task is running, next to a one-shot
\* task t2 that awaits its coroutine
C27_Witness ==
    /\ task_manager.pc = "manager"
    /\ task_manager.calls["t1"] = "raised"
    /\ task_manager.events["t1"] = "TASK_FAILED"
    /\ task_manager.coro["t1"] = "sleeping"
    /\ is_task_running(task_manager, "t1")
    /\ task_manager.coro["t2"] = "awaiting"

\* C28: when cancel_all_tasks was the last call and every coroutine has
\* run to its end, no task id is registered and is_task_running is false
\* for every id
C28_CancelAllEmptiesRegistry ==
    (/\ task_manager.pc = "manager"
     /\ task_manager.last.op = "cancel_all_tasks"
     /\ \A t \in TaskIds : task_manager.coro[t] \in {"none", "done"})
       => /\ task_manager._tasks = {}
          /\ DOMAIN task_manager._task_info = {}
          /\ \A t \in TaskIds : ~is_task_running(task_manager, t)

\* C29: when ensure_periodic_task was the last call, for an id that no
\* one-shot task holds, a periodic loop of its task is alive; and
\* is_task_running is true of a periodic task only while a loop of it is
\* alive
C29_EnsuredLoopAlive ==
    task_manager.pc = "manager"
       => /\ (/\ task_manager.last.op = "ensure_periodic_task"
               /\ task_manager.last.task_id
                     \in DOMAIN task_manager._task_info
               /\ task_manager._task_info[task_manager.last.task_id].type
                     = TASK_PERIODIC)
                => task_manager.coro[task_manager.last.task_id]
                      \in PeriodicLive
          /\ \A t \in TaskIds :
                (/\ is_task_running(task_manager, t)
                 /\ task_manager._task_info[t].type = TASK_PERIODIC)
                   => task_manager.coro[t] \in PeriodicLive

\* the write of the version file has failed in this run
CommitError == error.kind = "version_file"

\* every entry of the archive is in the root, and the staging directory
\* has been emptied into it
MergedRoot(r, a) ==
    /\ \A n \in Names : TarEntries(a)[n] # NoFile => r[n] = TarEntries(a)[n]
    /\ staging = EmptyDir

\* C31: after a failed write of the version file apply_update goes on with
\* its commit and starts no rollback: the root is the merged root and stays
\* as it is, and when apply_update returns it reports success, the
\* temporary tar, the staging directory and the archive are gone and
\* neither /__applying nor /__updating exists; the boot that follows
\* finds no /__applying
C31_CommitErrorKeepsMerge ==
    /\ [](CommitError
            => /\ pc \in {"ap_cleanup", "ap_rm_applying", "ap_rm_update",
                          "ap_return", "bt_post", "bt_reset_ok", "halted"}
               /\ merge_changed /\ ~merge_failed
               /\ pc = "ap_cleanup" => MergedRoot(root, archive)
               /\ root["version.txt"] = preRoot["version.txt"]
               /\ pc \in {"ap_return", "bt_post", "bt_reset_ok", "halted"}
                    => /\ outcome = "committed"
                       /\ ~tmptar
                       /\ ~staging_exists
                       /\ archive = NoArchive
                       /\ ~applying_flag
                       /\ update_flag = FlagAbsent)
    /\ [][/\ (CommitError /\ error'.kind = "version_file") => root' = root
          /\ (CommitError /\ outcome = "committed" /\ pc' = "bt_start")
               => ~applying_flag'
         ]_vars

\* C31 witness: apply_update has returned success with the error of the
\* version file; the root has the new main.py and the old version
C31_Witness ==
    /\ pc = "ap_return"
    /\ CommitError
    /\ outcome = "committed"
    /\ root["main.py"] = NewContent
    /\ root["version.txt"] = preRoot["version.txt"]
    /\ preRoot["main.py"] = OldContent
    /\ ~applying_flag
    /\ update_flag = FlagAbsent

\* C35: when the merge starts, every entry of the staging directory is an
\* entry of the archive of this apply_update, as it was extracted from it
C35_StagingIsCurrentArchive ==
    pc \in {"ap_mark", "ap_merge"}
       => \A n \in Names :
             staging[n] # NoFile => staging[n] = TarEntries(archive)[n]

\* C33: when restore_from_backup has returned success (it has removed
\* /__applying), the root is the root that the interrupted apply_update
\* found
C33_RollbackRestoresPreRoot ==
    (RestoreReturned /\ ~applying_flag) => root = preRoot

\* the root that a rollback which runs to its end makes of the root r
RolledBack(r, b) == [n \in Names |-> IF b[n] # NoFile THEN b[n] ELSE r[n]]

C36_FlagHoldsCounter ==
    (pc = "bt_start" /\ update_flag # FlagAbsent)
       => update_flag \in 1..max_failure_attempts

\* C37: when check_update, download_update, apply_update or
\* restore_from_backup has reported failure, error is set; after a failed
\* merge it is the error of the merge or of the rollback that failed
C37_FailureHasError ==
    /\ (pc = "ap_return" /\ outcome = "apply_failed") => error # NoError
    /\ (pc = "ap_return" /\ outcome = "apply_failed" /\ merge_failed)
          => error.kind \in {"merge", "restore", "backup_not_found",
                             "backup_empty"}
    /\ outcome \in {"check_failed", "download_failed"} => error # NoError
    /\ (RestoreReturned /\ applying_flag) => error # NoError

\* ---------------------------------------------------------------------
\* The updater as the coroutines of two tasks share it
\* ---------------------------------------------------------------------

\* the one FirmwareUpdater with no call on it: at is where the call of each
\* task stands ("idle": no call), remaining the local variable of its
\* _download_content
InitShared ==
    /\ DeviceAtRest
    /\ FunctionsAtRest
    /\ UpdaterAtRest
    /\ ExtractionAtRest
    /\ VerificationAtRest
    /\ SingletonAtRest
    /\ TaskManagerAtRest
    /\ EventLoopAtRest
    /\ ProgressAtRest
    /\ shared = [pc |-> "updater",
                 at |-> [t \in TaskIds |-> "idle"],
                 remaining |-> [t \in TaskIds |-> 0],
                 total_size |-> 0,
                 bytes_read |-> 0,
                 download_started |-> FALSE,
                 download_done |-> FALSE,
                 error |-> NoError]

SharedFrame ==
    UNCHANGED <<device, functionUnits, updater, extraction, verification,
                singleton, task_manager, event_loop, progress>>

\* _download_file 258-266: the call resets the counters, the flags and the
\* error whatever else is going on, then awaits the HTTP request
_download_file_enter(task_id) ==
    /\ shared.pc = "updater"
    /\ shared.at[task_id] = "idle"
    /\ shared' = [shared EXCEPT !.at[task_id] = "request",
                                !.total_size = 0,
                                !.bytes_read = 0,
                                !.download_done = FALSE,
                                !.error = NoError,
                                !.download_started = FALSE]
    /\ SharedFrame

\* _download_file 266-283 with _download_content 210-213: the request
\* raises, and error is set at 305-309; or the response comes with its
\* Content-Length, download_started is set, total_size is the length and
\* bytes_read is 0
_download_file_response(task_id) ==
    /\ shared.pc = "updater"
    /\ shared.at[task_id] = "request"
    /\ \/ shared' = [shared EXCEPT !.at[task_id] = "idle",
                                   !.error = Err("download")]
       \/ \E content_length \in 1..MaxBodyLen :
            shared' = [shared EXCEPT !.at[task_id] = "content",
                                     !.download_started = TRUE,
                                     !.total_size = content_length,
                                     !.bytes_read = 0,
                                     !.remaining[task_id] = content_length]
    /\ SharedFrame

\* _download_content 215-239: one chunk is read, counted in bytes_read and
\* taken off remaining, and the coroutine sleeps 10 ms before the next
_download_content_chunk(task_id) ==
    /\ shared.pc = "updater"
    /\ shared.at[task_id] = "content"
    /\ shared.remaining[task_id] > 0
    /\ shared' = [shared EXCEPT !.bytes_read = @ + 1,
                                !.remaining[task_id] = @ - 1]
    /\ SharedFrame

\* _download_content 240-256 and _download_file 284-303: with nothing
\* remaining the download is done and the call returns
_download_file_return(task_id) ==
    /\ shared.pc = "updater"
    /\ shared.at[task_id] = "content"
    /\ shared.remaining[task_id] = 0
    /\ shared' = [shared EXCEPT !.at[task_id] = "idle",
                                !.download_done = TRUE]
    /\ SharedFrame

NextShared ==
    \/ \E task_id \in TaskIds : _download_file_enter(task_id)
    \/ \E task_id \in TaskIds : _download_file_response(task_id)
    \/ \E task_id \in TaskIds : _download_content_chunk(task_id)
    \/ \E task_id \in TaskIds : _download_file_return(task_id)

SpecShared == InitShared /\ [][NextShared]_vars

\* ---------------------------------------------------------------------
\* The engine and a periodic task on one event loop
\* ---------------------------------------------------------------------

Coroutines == {"engine", "keepalive"}

\* the loops of an update in the order the engine runs them: download_update
\* reads the content (215-239); apply_update decompresses (621-626),
\* extracts (776-782), backs up (1013-1030), merges (1080-1114), restores
\* after a failed merge (1188-1222) and deletes /update (977-991)
AfterLoop(loop) ==
    CASE loop = "_download_content" -> {"_decompress_firmware"}
      [] loop = "_decompress_firmware" -> {"_extract_firmware"}
      [] loop = "_extract_firmware" -> {"_backup_existing_files"}
      [] loop = "_backup_existing_files" -> {"_merge_directories_recursive"}
      [] loop = "_merge_directories_recursive" ->
            {"restore_from_backup", "_remove_dir_recursive"}
      [] loop = "restore_from_backup" -> {"_remove_dir_recursive"}
      [] loop = "_remove_dir_recursive" -> {"returned"}

\* what a loop goes through: items it works on and, in the backup
\* (1018-1021) and in the merge into the root (1085-1087), items it skips
\* with continue
Listings(loop) ==
    LET kinds == IF loop \in {"_backup_existing_files",
                              "_merge_directories_recursive"}
                 THEN {"work", "skip"}
                 ELSE {"work"}
    IN  IF loop = "returned"
        THEN {<<>>}
        ELSE UNION {[1..n -> kinds] : n \in 0..MaxUnits}

\* what the await at the end of an iteration leaves the engine in:
\* sleep_ms(10) after a chunk of the download (239) waits for the timer,
\* sleep(0) everywhere else leaves it ready
AfterYield(loop) ==
    IF loop = "_download_content" THEN "sleeping" ELSE "ready"

\* download_update has been called from one task, and a periodic task is
\* registered; neither has the processor yet
InitYield ==
    /\ DeviceAtRest
    /\ FunctionsAtRest
    /\ UpdaterAtRest
    /\ ExtractionAtRest
    /\ VerificationAtRest
    /\ SingletonAtRest
    /\ TaskManagerAtRest
    /\ SharedAtRest
    /\ ProgressAtRest
    /\ \E items \in Listings("_download_content") :
         event_loop = [pc |-> "event_loop",
                       running |-> "none",
                       state |-> [c \in Coroutines |-> "ready"],
                       loop |-> "_download_content",
                       items |-> items]

YieldFrame ==
    UNCHANGED <<device, functionUnits, updater, extraction, verification,
                singleton, task_manager, shared, progress>>

\* the timer a sleeping coroutine waits for expires
timer_due(c) ==
    /\ event_loop.pc = "event_loop"
    /\ event_loop.state[c] = "sleeping"
    /\ event_loop' = [event_loop EXCEPT !.state[c] = "ready"]
    /\ YieldFrame

\* the event loop, with no coroutine running, resumes one that is ready
dispatch(c) ==
    /\ event_loop.pc = "event_loop"
    /\ event_loop.running = "none"
    /\ event_loop.state[c] = "ready"
    /\ event_loop' = [event_loop EXCEPT !.running = c,
                                        !.state[c] = "running"]
    /\ YieldFrame

\* an engine loop that does the work of an item and keeps the processor
engine_unit_NoYield ==
    /\ event_loop.pc = "event_loop"
    /\ event_loop.running = "engine"
    /\ event_loop.items # <<>>
    /\ Head(event_loop.items) = "work"
    /\ event_loop' = [event_loop EXCEPT !.items = Tail(@)]
    /\ YieldFrame

\* one iteration of an engine loop: the chunk is read and written (216-239,
\* 622-626, 957-961), the entry extracted (777-782), the item copied
\* (1024-1030, 1212-1222), merged (1089-1114) or deleted (978-991), and the
\* await at the end of the iteration gives the processor up
engine_unit ==
    /\ event_loop.pc = "event_loop"
    /\ event_loop.running = "engine"
    /\ event_loop.items # <<>>
    /\ Head(event_loop.items) = "work"
    /\ event_loop' = [event_loop EXCEPT
                        !.items = Tail(@),
                        !.running = "none",
                        !.state["engine"] = AfterYield(event_loop.loop)]
    /\ YieldFrame

\* an excluded top-level item of the backup (1018-1021) or a system
\* directory of the merge (1085-1087): continue, before the await
engine_skip ==
    /\ event_loop.pc = "event_loop"
    /\ event_loop.running = "engine"
    /\ event_loop.items # <<>>
    /\ Head(event_loop.items) = "skip"
    /\ event_loop' = [event_loop EXCEPT !.items = Tail(@)]
    /\ YieldFrame

\* a loop is over and the engine goes on to the next one, or returns
engine_next_loop ==
    /\ event_loop.pc = "event_loop"
    /\ event_loop.running = "engine"
    /\ event_loop.items = <<>>
    /\ \E loop \in AfterLoop(event_loop.loop) :
         IF loop = "returned"
         THEN event_loop' = [event_loop EXCEPT !.loop = loop,
                                               !.running = "none",
                                               !.state["engine"] = "done"]
         ELSE \E items \in Listings(loop) :
                event_loop' = [event_loop EXCEPT !.loop = loop,
                                                 !.items = items]
    /\ YieldFrame

\* periodic_wrapper 184-202 of the task manager: the update function of
\* the periodic task runs, then the wrapper sleeps for its interval
keepalive_run ==
    /\ event_loop.pc = "event_loop"
    /\ event_loop.running = "keepalive"
    /\ event_loop' = [event_loop EXCEPT !.running = "none",
                                        !.state["keepalive"] = "sleeping"]
    /\ YieldFrame

NextYield ==
    \/ \E c \in Coroutines : timer_due(c)
    \/ \E c \in Coroutines : dispatch(c)
    \/ engine_unit
    \/ engine_skip
    \/ engine_next_loop
    \/ keepalive_run

\* a running coroutine goes on to its next await, timers expire, and the
\* scheduler is fair: a coroutine that is ready again and again is resumed
SpecYield ==
    /\ InitYield
    /\ [][NextYield]_vars
    /\ WF_vars(engine_unit)
    /\ WF_vars(engine_skip)
    /\ WF_vars(engine_next_loop)
    /\ WF_vars(keepalive_run)
    /\ \A c \in Coroutines : WF_vars(timer_due(c))
    /\ \A c \in Coroutines : SF_vars(dispatch(c))

C38_OneOperationAtATime ==
    shared.pc = "updater" =>
       /\ Cardinality({t \in TaskIds : shared.at[t] # "idle"}) <= 1
       /\ \A t \in TaskIds :
            shared.at[t] = "content"
               => shared.bytes_read + shared.remaining[t] = shared.total_size

\* ---------------------------------------------------------------------
\* check_update with and without a progress callback
\* ---------------------------------------------------------------------

\* what progress_callback is: None, a function that returns, a function
\* that raises an Exception
Callbacks == {"None", "returns", "raises"}

\* what the metadata of the release turns out to be
CheckInputs == {"fetch_failed", "parse_failed", "newer", "up_to_date"}

\* _notify_progress with the call of the callback outside any try
_notify_progress_Uncaught(callback) ==
    IF callback = "None" THEN "not_called"
    ELSE IF callback = "returns" THEN "called"
    ELSE "raised"

\* _notify_progress 96-107: nothing without a callback; else the callback
\* is called, and an Exception it raises is caught and logged as a warning
_notify_progress(callback) ==
    IF callback = "None" THEN "not_called"
    ELSE IF callback = "returns" THEN "called"
    ELSE "warned"

\* three updaters that differ in their progress callback only, about to run
\* check_update on the same metadata, with the same error left by an earlier
\* call and the same /__updating; at is the _notify_progress the call has
\* come to, events and warnings count the calls of the callback and the
\* warnings logged for it
InitProgress ==
    /\ DeviceAtRest
    /\ FunctionsAtRest
    /\ UpdaterAtRest
    /\ ExtractionAtRest
    /\ VerificationAtRest
    /\ SingletonAtRest
    /\ TaskManagerAtRest
    /\ SharedAtRest
    /\ EventLoopAtRest
    /\ \E input \in CheckInputs, flag \in {FlagAbsent, 1},
          e \in {NoError, Err("download")} :
         progress = [pc |-> "check_update",
                     input |-> input,
                     updaters |->
                        [callback \in Callbacks |->
                           [at |-> "checking_0",
                            error |-> e,
                            update_flag |-> flag,
                            events |-> 0,
                            warnings |-> 0,
                            returned |-> "none"]]]

\* the updater after the _notify_progress it has come to
Notified(u, callback) ==
    LET n == _notify_progress(callback) IN
    IF n = "raised"
    THEN [u EXCEPT !.events = @ + 1, !.at = "over", !.returned = "raised"]
    ELSE [u EXCEPT !.events = IF n = "not_called" THEN @ ELSE @ + 1,
                   !.warnings = IF n = "warned" THEN @ + 1 ELSE @]

\* check_update 486-521 from one _notify_progress to the next: error is
\* cleared (488); the metadata is fetched (494) and, when that fails,
\* False returned (496-498); it is parsed (501) and, when that fails, False
\* returned (502-504); the versions are compared (510); a newer one is
\* reported (512-514, 521), and for an up-to-date firmware /__updating is
\* removed (516-519)
check_update_step(callback) ==
    /\ progress.pc = "check_update"
    /\ progress.updaters[callback].returned = "none"
    /\ LET entered == IF progress.updaters[callback].at = "checking_0"
                      THEN [progress.updaters[callback] EXCEPT
                              !.error = NoError]
                      ELSE progress.updaters[callback]
           u == Notified(entered, callback)
           at == progress.updaters[callback].at
           after ==
             IF u.returned = "raised" THEN u
             ELSE CASE at = "checking_0" -> [u EXCEPT !.at = "checking_25"]
               [] at = "checking_25" ->
                    IF progress.input = "fetch_failed"
                    THEN [u EXCEPT !.error = Err("download"),
                                   !.at = "fetch_failed_100"]
                    ELSE [u EXCEPT !.at = "checking_50"]
               [] at = "fetch_failed_100" ->
                    [u EXCEPT !.at = "over", !.returned = "False"]
               [] at = "checking_50" ->
                    IF progress.input = "parse_failed"
                    THEN [u EXCEPT !.error = Err("metadata"),
                                   !.at = "parse_failed_100"]
                    ELSE [u EXCEPT !.at = "checking_75"]
               [] at = "parse_failed_100" ->
                    [u EXCEPT !.at = "over", !.returned = "False"]
               [] at = "checking_75" ->
                    IF progress.input = "newer"
                    THEN [u EXCEPT !.at = "available_100"]
                    ELSE [u EXCEPT !.at = "up_to_date_100"]
               [] at = "available_100" ->
                    [u EXCEPT !.at = "over", !.returned = "True"]
               [] at = "up_to_date_100" ->
                    [u EXCEPT !.at = "over",
                              !.returned = "False",
                              !.update_flag =
                                 IF @ # FlagAbsent
                                 THEN _cleanup_success_flags(@)
                                 ELSE @]
       IN  progress' = [progress EXCEPT !.updaters[callback] = after]
    /\ UNCHANGED <<device, functionUnits, updater, extraction, verification,
                   singleton, task_manager, shared, event_loop>>

NextProgress == \E callback \in Callbacks : check_update_step(callback)

SpecProgress == InitProgress /\ [][NextProgress]_vars

\* what of an updater is not about its callback
Outcome(u) == [at |-> u.at, error |-> u.error, update_flag |-> u.update_flag,
               returned |-> u.returned]

\* C39: an updater whose callback raises is, at each _notify_progress of
\* check_update and at its return, in the state of the updater without a
\* callback at the same place: same error, same /__updating, same result;
\* and each exception of the callback was logged
C39_CallbackContained ==
    progress.pc = "check_update" =>
       \A callback \in Callbacks :
          /\ progress.updaters[callback].at = progress.updaters["None"].at
                => Outcome(progress.updaters[callback])
                      = Outcome(progress.updaters["None"])
          /\ progress.updaters[callback].returned # "raised"
          /\ callback = "raises"
                => progress.updaters[callback].warnings
                      = progress.updaters[callback].events

\* C39 witness: with a callback that raised at each of its five events,
\* check_update has found the firmware up to date and removed /__updating
C39_Witness ==
    /\ progress.pc = "check_update"
    /\ progress.input = "up_to_date"
    /\ progress.updaters["raises"].returned = "False"
    /\ progress.updaters["raises"].warnings = 5
    /\ progress.updaters["raises"].update_flag = FlagAbsent
    /\ progress.updaters["None"].returned = "False"

====
